---- MODULE Spec2Model ----
(***************************************************************************)
(* cloudx.sh: a launcher of development environments for GitHub            *)
(* repositories on Cloudflare Workers.  The repository holds two workers:  *)
(*                                                                         *)
(*   - the lock worker, src/src/index.ts: validated launch with a KV lock, *)
(*     initializeSandbox, status and session page;                         *)
(*   - the Hono worker, src/src/services/ai-analyzer.ts lines 780-1340:    *)
(*     launch with rate counters and a liveness probe, the phase executor  *)
(*     initializeSession, status, logs, stop and the session page;       *)
(*                                                                         *)
(* and the class SessionHandler, src/unnamed/part_004, which runs the same *)
(* phases on fields in memory, and the class AIAnalyzer,                   *)
(* src/src/services/ai-analyzer.ts lines 15-355, which classifies a        *)
(* repository.                                                             *)
(*                                                                         *)
(* The specifications share the variables: SpecGrammar (the validators as  *)
(* pure functions), SpecLock (concurrent launches of the lock worker),     *)
(* SpecLockRead (one launch of the lock worker, initializeSandbox and the  *)
(* status reader), SpecLockInit (two launches of the lock worker and       *)
(* initializeSandbox), SpecLockFair (SpecLockInit with weak fairness of    *)
(* each request handler), SpecHonoLaunch (concurrent launches of the Hono  *)
(* worker), SpecHonoCaps (the same launches after earlier ones have moved  *)
(* the rate counters), SpecHono (one launch of the Hono worker,            *)
(* initializeSession and the session endpoints), SpecPhases (SpecHono      *)
(* without stop requests, with weak fairness of the task: once started by  *)
(* waitUntil, the task's next statement is eventually executed), SpecExec  *)
(* (concurrent exec requests for one session), SpecShell (the command line *)
(* of the start phase and the shell that reads it, as pure functions),     *)
(* SpecHandler (one SessionHandler running initialize), SpecSequence (the  *)
(* phase executor of the Hono worker and a SessionHandler side by side),   *)
(* SpecTasks (initializeSandbox and initializeSession side by side, with   *)
(* weak fairness of each task), SpecAnalyzer (buildEnvironmentConfig over  *)
(* file trees, classifier answers and manifest contents) and SpecCrash (a  *)
(* launch of the lock worker that dies holding the lock, and a launch      *)
(* that arrives once the lock is gone).  Each leaves the variables of the  *)
(* parts it does not run at their initial values.                          *)
(*                                                                         *)
(* Strings the code inspects character by character are sequences of       *)
(* one-character strings.  KV reads and writes are taken to succeed,       *)
(* except that LaunchThrow lets the lock worker's try block throw; calls   *)
(* to the sandbox and to GitHub may fail.  KV expiry (TTL) is an action of *)
(* the store.  Time is not kept: timestamps are left out of the records.   *)
(***************************************************************************)
EXTENDS Integers, Sequences, FiniteSets, TLC

VARIABLES
    \* ---- SpecGrammar ----
    gIn,        \* the string handed to the validators
    gOwnerOk,   \* <<isValidGitHubOwner(gIn)>> once checked, <<>> before
    gRepoOk,    \* <<isValidGitHubRepo(gIn)>> once checked, <<>> before
    \* ---- SpecLock: the lock worker, src/src/index.ts ----
    kvSession,  \* KV `session:${repoFullName}`: session number, 0 when absent
    kvLock,     \* KV `lock:${repoFullName}`: lock token, 0 when absent
    kvInfo,     \* KV `info:${sessionId}`: the record, NoInfo when absent
    kvPreview,  \* KV `preview:${sessionId}`: TRUE when a preview URL is stored
    uuids,      \* session ids drawn so far by crypto.randomUUID()
    launch,     \* the launch requests (handleGitHubLaunch), by request number
    sbInit,     \* position of initializeSandbox, by session number
    reader,     \* the status / session-page request
    created,    \* history: sessions created for a repository since its
                \* `session:` key was last deleted by expiry
    firstDone,  \* history: session of the first launch that created a session
                \* and returned, since the last expiry of the `session:` key
    \* ---- SpecHono: the Hono worker, src/src/services/ai-analyzer.ts ----
    hkvRate,    \* KV `session_rate:${clientIP}`: count, 0 when absent
    hkvRepo,    \* KV `repo_sessions:${repoFullName}`: count, 0 when absent
    hkvActive,  \* KV `active:${repoFullName}`: session number, 0 when absent
    hkvSession, \* KV `session:${sessionId}`: SessionInfo, NoSession when absent
    hUuids,     \* session ids drawn so far by crypto.randomUUID()
    hLaunch,    \* the launch requests (GET /github.com/:owner/:repo)
    phase,      \* initializeSession, by session number
    client,     \* the request to /api/status, /api/logs, /api/stop or /session
    \* ---- SpecShell: the command line of the start phase ----
    shValue,    \* the value of the environment variable
    shBy,       \* who built the line: "initializeSession", "SessionHandler"
    shLine,     \* the line handed to sandbox.exec
    shRun,      \* the commands the shell performs for it
    \* ---- SpecHandler: SessionHandler, src/unnamed/part_004 ----
    handler,    \* the fields of one SessionHandler and where initialize() is
    \* ---- SpecExec: POST /api/exec/:sessionId of the Hono worker ----
    hkvExec,    \* KV `exec_rate:${sessionId}` of one session: count, 0 when absent
    execReq,    \* the exec requests for that session
    execRan,    \* history: commands run in the sandbox since the counter was
                \* last absent
    \* ---- SpecHonoCaps: what happened before the launches of a run ----
    ipBefore,   \* sessions the client IP created earlier in the hour
    repoBefore, \* per repository, sessions created earlier and not found dead
    \* ---- SpecAnalyzer: AIAnalyzer.analyzeRepository ----
    anIn,       \* the request: files, configContents, and the classifier's answer
    anFiles,    \* <<fileAnalysis>> once analyzeFiles has run, <<>> before
    anOut       \* <<environment>> once buildEnvironmentConfig has returned,
                \* <<Threw>> when it threw, <<>> before

gvars == <<gIn, gOwnerOk, gRepoOk>>
kvvars == <<kvSession, kvLock, kvInfo, kvPreview>>
lvars == <<kvSession, kvLock, kvInfo, kvPreview, uuids, launch, sbInit, reader,
           created, firstDone>>
hkvvars == <<hkvRate, hkvRepo, hkvActive, hkvSession>>
hvars == <<hkvRate, hkvRepo, hkvActive, hkvSession, hUuids, hLaunch, phase, client>>
shvars == <<shValue, shBy, shLine, shRun>>
evars == <<hkvExec, execReq, execRan>>
bvars == <<ipBefore, repoBefore>>
avars == <<anIn, anFiles, anOut>>
xvars == <<shValue, shBy, shLine, shRun, handler, hkvExec, execReq, execRan,
          ipBefore, repoBefore, anIn, anFiles, anOut>>
vars == <<gvars, lvars, hvars, xvars>>

(***************************************************************************)
(* Characters                                                              *)
(***************************************************************************)
Lower == {"a","b","c","d","e","f","g","h","i","j","k","l","m",
          "n","o","p","q","r","s","t","u","v","w","x","y","z"}
Upper == {"A","B","C","D","E","F","G","H","I","J","K","L","M",
          "N","O","P","Q","R","S","T","U","V","W","X","Y","Z"}
Digit == {"0","1","2","3","4","5","6","7","8","9"}
Alnum == Lower \cup Upper \cup Digit

\* String.prototype.includes for a two-character needle
Includes2(s, c1, c2) ==
    \E i \in 1..(Len(s) - 1) : s[i] = c1 /\ s[i + 1] = c2

(***************************************************************************)
(* Validator (src/src/index.ts 24-48)                                      *)
(***************************************************************************)
\* {0,37} of GITHUB_OWNER_REGEX
OwnerMidMax == 37
\* {1,100} of GITHUB_REPO_REGEX
RepoMaxLen == 100

\* /^[a-zA-Z0-9](?:[a-zA-Z0-9-]{0,37}[a-zA-Z0-9])?$/
GITHUB_OWNER_REGEX(s) ==
    /\ Len(s) >= 1
    /\ s[1] \in Alnum
    /\ \/ Len(s) = 1
       \/ /\ Len(s) >= 2
          /\ Len(s) - 2 <= OwnerMidMax
          /\ \A i \in 2..(Len(s) - 1) : s[i] \in Alnum \cup {"-"}
          /\ s[Len(s)] \in Alnum

\* /^[a-zA-Z0-9._-]{1,100}$/
GITHUB_REPO_REGEX(s) ==
    /\ Len(s) >= 1
    /\ Len(s) <= RepoMaxLen
    /\ \A i \in 1..Len(s) : s[i] \in Alnum \cup {".", "_", "-"}

\* the owner check with the '--' test dropped
isValidGitHubOwner_NoDoubleHyphen(owner) == GITHUB_OWNER_REGEX(owner)

isValidGitHubOwner(owner) ==
    GITHUB_OWNER_REGEX(owner) /\ ~Includes2(owner, "-", "-")

\* the repo check with the '..' test dropped
isValidGitHubRepo_NoDotDot(repo) ==
    GITHUB_REPO_REGEX(repo) /\ repo # <<".">>

isValidGitHubRepo(repo) ==
    GITHUB_REPO_REGEX(repo) /\ repo # <<".">> /\ repo # <<".", ".">>

(***************************************************************************)
(* SpecGrammar: the validators applied to a bounded set of strings         *)
(***************************************************************************)
\* longest string enumerated exhaustively over GrammarAlphabet
MaxLen == 3
\* padded strings reach lengths up to the length limit plus LenSlack
LenSlack == 2

GrammarAlphabet == {"a", "A", "1", "-", ".", "_", "!"}

RECURSIVE StringsOfLen(_)
StringsOfLen(n) ==
    IF n = 0 THEN {<<>>}
    ELSE {Append(s, c) : s \in StringsOfLen(n - 1), c \in GrammarAlphabet}

StringsUpTo(n) == UNION {StringsOfLen(k) : k \in 0..n}

RECURSIVE Repeat(_, _)
Repeat(c, n) == IF n = 0 THEN <<>> ELSE Append(Repeat(c, n - 1), c)

\* strings around the two length limits: a short head, a run of "a", a short tail
PaddedStrings ==
    {h \o Repeat("a", n) \o t :
        h \in StringsUpTo(1), t \in StringsUpTo(1),
        n \in ((OwnerMidMax - 1)..(OwnerMidMax + LenSlack))
              \cup ((RepoMaxLen - 2)..(RepoMaxLen + LenSlack))}

\* the strings the documentation names
NamedStrings ==
    { <<"a">>, <<"a","-","b">>, <<"A","1">>,
      <<"-","a","b","c">>, <<"a","b","c","-">>, <<"a","-","-","b">>, <<>>,
      <<"m","y",".","r","e","p","o","_","v","2">>, <<".">>, <<".",".">> }

GrammarInputs == StringsUpTo(MaxLen) \cup PaddedStrings \cup NamedStrings

CheckOwner ==
    /\ gOwnerOk = <<>>
    /\ gOwnerOk' = <<isValidGitHubOwner(gIn)>>
    /\ UNCHANGED <<gIn, gRepoOk, lvars, hvars, xvars>>

CheckRepo ==
    /\ gRepoOk = <<>>
    /\ gRepoOk' = <<isValidGitHubRepo(gIn)>>
    /\ UNCHANGED <<gIn, gOwnerOk, lvars, hvars, xvars>>

(***************************************************************************)
(* Session ids (src/src/index.ts 43-48)                                    *)
(***************************************************************************)
Hex == Digit \cup {"a","b","c","d","e","f"} \cup {"A","B","C","D","E","F"}

\* /^[0-9a-f]{8}-[0-9a-f]{4}-[0-9a-f]{4}-[0-9a-f]{4}-[0-9a-f]{12}$/i
UUID_REGEX(s) ==
    /\ Len(s) = 36
    /\ \A i \in 1..36 :
          IF i \in {9, 14, 19, 24} THEN s[i] = "-" ELSE s[i] \in Hex

isValidSessionId(sessionId) == UUID_REGEX(sessionId)

\* the n-th id crypto.randomUUID() returns: 00000000-0000-4000-8000-00000000000n
DigitOf(n) == CHOOSE c \in Digit : c = <<"0","1","2","3","4","5","6","7","8","9">>[n + 1]
randomUUID(n) ==
    Repeat("0", 8) \o <<"-">> \o Repeat("0", 4) \o <<"-", "4">> \o Repeat("0", 3)
      \o <<"-", "8">> \o Repeat("0", 3) \o <<"-">> \o Repeat("0", 11) \o <<DigitOf(n)>>

(***************************************************************************)
(* The lock worker: state                                                  *)
(***************************************************************************)
\* launch requests issued in a run
MaxLaunch == 3
\* maxWaitMs and pollIntervalMs of the lock wait
maxWaitMs == 5000
pollIntervalMs == 500

Launches == 1..MaxLaunch
Sessions == 1..MaxLaunch

\* owner and repo path segments a launch request may carry
LaunchOwners == {<<"a">>, <<"-", "a">>}
LaunchRepos == {<<"r">>, <<"!">>}
RepoFullNames == LaunchOwners \X LaunchRepos

NoInfo == [status |-> "none", error |-> ""]

\* the session number an id names, 0 when it names none
SessionNo(id) ==
    IF \E n \in Sessions : randomUUID(n) = id
    THEN CHOOSE n \in Sessions : randomUUID(n) = id
    ELSE 0

\* the ids a status or session-page request may carry
ReaderIds ==
    {randomUUID(n) : n \in Sessions}
      \cup {<<"1">>, [randomUUID(1) EXCEPT ![36] = "g"]}

\* a launch request before it arrives.  History fields: wrote, the keys the
\* request has put ("lock", "session", "info"); released, whether it has
\* deleted the lock; waited, whether it found the lock held at line 176;
\* failed, the sessions whose record said error when the request arrived
IdleLaunch ==
    [pc |-> "idle", owner |-> <<>>, repo |-> <<>>, polls |-> 0, sessionId |-> 0,
     resp |-> 0, kv |-> FALSE, out |-> FALSE, after |-> 0, wrote |-> {},
     released |-> FALSE, waited |-> FALSE, failed |-> {}]

IdleReader ==
    [pc |-> "idle", kind |-> "status", id |-> <<>>, info |-> NoInfo,
     previewUrl |-> FALSE, resp |-> 0]

InitLockVars ==
    /\ kvSession = [p \in RepoFullNames |-> 0]
    /\ kvLock = [p \in RepoFullNames |-> 0]
    /\ kvInfo = [s \in Sessions |-> NoInfo]
    /\ kvPreview = [s \in Sessions |-> FALSE]
    /\ uuids = 0
    /\ launch = [q \in Launches |-> IdleLaunch]
    /\ sbInit = [s \in Sessions |-> "none"]
    /\ reader = IdleReader
    /\ created = [p \in RepoFullNames |-> {}]
    /\ firstDone = [p \in RepoFullNames |-> 0]

InitGrammarVars ==
    /\ gIn = <<>>
    /\ gOwnerOk = <<>>
    /\ gRepoOk = <<>>

Key(q) == <<launch[q].owner, launch[q].repo>>

\* request q moves to pc with the fields of upd changed
Step(q, pc, upd) ==
    launch' = [launch EXCEPT ![q] =
                 [f \in DOMAIN launch[q] |->
                    IF f = "pc" THEN pc
                    ELSE IF f \in DOMAIN upd THEN upd[f] ELSE launch[q][f]]]

Redirect(sessionId) == [resp |-> 302, sessionId |-> sessionId]

(***************************************************************************)
(* handleGitHubLaunch (src/src/index.ts 131-263), one action per await     *)
(***************************************************************************)
\* the request starts without either validator being applied
LaunchStart_NoValidation(q, owner, repo) ==
    /\ launch[q].pc = "idle"
    /\ \A o \in 1..(q - 1) : launch[o].pc # "idle"
    /\ launch' = [launch EXCEPT ![q] =
                    [IdleLaunch EXCEPT !.pc = "isRepoPublic", !.owner = owner,
                                       !.repo = repo,
                                       !.after = firstDone[<<owner, repo>>],
                                       !.failed = {s \in Sessions :
                                                     kvInfo[s].status = "error"}]]
    /\ UNCHANGED <<kvvars, uuids, sbInit, reader, created, firstDone,
                   gvars, hvars, xvars>>

\* lines 137-152: parse the path, validate owner and repo.  Requests are
\* numbered in the order they arrive.
LaunchStart(q, owner, repo) ==
    /\ launch[q].pc = "idle"
    /\ \A o \in 1..(q - 1) : launch[o].pc # "idle"
    /\ IF isValidGitHubOwner(owner) /\ isValidGitHubRepo(repo)
       THEN launch' = [launch EXCEPT ![q] =
                         [IdleLaunch EXCEPT !.pc = "isRepoPublic", !.owner = owner,
                                            !.repo = repo,
                                            !.after = firstDone[<<owner, repo>>],
                                       !.failed = {s \in Sessions :
                                                     kvInfo[s].status = "error"}]]
       ELSE launch' = [launch EXCEPT ![q] =
                         [IdleLaunch EXCEPT !.pc = "done", !.owner = owner,
                                            !.repo = repo, !.resp = 400]]
    /\ UNCHANGED <<kvvars, uuids, sbInit, reader, created, firstDone,
                   gvars, hvars, xvars>>

\* lines 155-158: isRepoPublic asks GitHub; the answer is GitHub's
LaunchRepoCheck(q) ==
    /\ launch[q].pc = "isRepoPublic"
    /\ \E accessible \in BOOLEAN :
          IF accessible
          THEN Step(q, "getSession", [out |-> TRUE])
          ELSE Step(q, "done", [out |-> TRUE, resp |-> 400])
    /\ UNCHANGED <<kvvars, uuids, sbInit, reader, created, firstDone,
                   gvars, hvars, xvars>>

\* lines 168-171: the fast path
LaunchGetSession(q) ==
    /\ launch[q].pc = "getSession"
    /\ IF kvSession[Key(q)] # 0
       THEN Step(q, "done", [kv |-> TRUE] @@ Redirect(kvSession[Key(q)]))
       ELSE Step(q, "getLock", [kv |-> TRUE])
    /\ UNCHANGED <<kvvars, uuids, sbInit, reader, created, firstDone,
                   gvars, hvars, xvars>>

\* lines 175-183: read the lock; a held lock starts the wait
LaunchGetLock(q) ==
    /\ launch[q].pc = "getLock"
    /\ IF kvLock[Key(q)] # 0
       THEN Step(q, "wait", [polls |-> 0, waited |-> TRUE])
       ELSE Step(q, "putLock", <<>>)
    /\ UNCHANGED <<kvvars, uuids, sbInit, reader, created, firstDone,
                   gvars, hvars, xvars>>

\* the loop without the timeout test of lines 187-190
LaunchWait_NoTimeout(q) ==
    /\ launch[q].pc = "wait"
    /\ IF kvSession[Key(q)] # 0
       THEN Step(q, "done", [polls |-> 0] @@ Redirect(kvSession[Key(q)]))
       ELSE Step(q, "waitLock",
                 [polls |-> IF launch[q].polls * pollIntervalMs <= maxWaitMs
                            THEN launch[q].polls + 1 ELSE launch[q].polls])
    /\ UNCHANGED <<kvvars, uuids, sbInit, reader, created, firstDone,
                   gvars, hvars, xvars>>

\* lines 187-199: the timeout test at the head of the loop, the sleep and the
\* read of the `session:` key that follows it (the test and the sleep touch
\* nothing shared, so they are one step with the read).  Each round sleeps
\* pollIntervalMs and the KV reads take time of their own, so after one
\* round the test may succeed at any time and after
\* maxWaitMs / pollIntervalMs rounds it must.  timedOut is the position
\* finalCheck; polls, the rounds slept, is dropped when the loop is left.
LaunchWait(q) ==
    /\ launch[q].pc = "wait"
    /\ \/ /\ launch[q].polls >= 1
          /\ Step(q, "finalCheck", [polls |-> 0])
       \/ /\ launch[q].polls * pollIntervalMs < maxWaitMs
          /\ IF kvSession[Key(q)] # 0
             THEN Step(q, "done", [polls |-> 0] @@ Redirect(kvSession[Key(q)]))
             ELSE Step(q, "waitLock", [polls |-> launch[q].polls + 1])
    /\ UNCHANGED <<kvvars, uuids, sbInit, reader, created, firstDone,
                   gvars, hvars, xvars>>

\* lines 202-205
LaunchWaitLock(q) ==
    /\ launch[q].pc = "waitLock"
    /\ IF kvLock[Key(q)] = 0
       THEN Step(q, "putLock", [polls |-> 0])
       ELSE Step(q, "wait", <<>>)
    /\ UNCHANGED <<kvvars, uuids, sbInit, reader, created, firstDone,
                   gvars, hvars, xvars>>

\* the final check with one change: a request that gives up puts its own
\* lock value before it answers 503
LaunchFinalCheck_TakeLock(q) ==
    /\ launch[q].pc = "finalCheck"
    /\ IF kvSession[Key(q)] # 0
       THEN /\ Step(q, "done", Redirect(kvSession[Key(q)]))
            /\ UNCHANGED kvLock
       ELSE /\ Step(q, "done", [resp |-> 503, wrote |-> launch[q].wrote \cup {"lock"}])
            /\ kvLock' = [kvLock EXCEPT ![Key(q)] = q]
    /\ UNCHANGED <<kvSession, kvInfo, kvPreview, uuids, sbInit, reader, created,
                   firstDone,
                   gvars, hvars, xvars>>

\* lines 209-218
LaunchFinalCheck(q) ==
    /\ launch[q].pc = "finalCheck"
    /\ IF kvSession[Key(q)] # 0
       THEN Step(q, "done", Redirect(kvSession[Key(q)]))
       ELSE Step(q, "done", [resp |-> 503])
    /\ UNCHANGED <<kvvars, uuids, sbInit, reader, created, firstDone,
                   gvars, hvars, xvars>>

\* line 222: the lock token is the request's own random value
LaunchPutLock(q) ==
    /\ launch[q].pc = "putLock"
    /\ kvLock' = [kvLock EXCEPT ![Key(q)] = q]
    /\ Step(q, "recheck", [wrote |-> launch[q].wrote \cup {"lock"}])
    /\ UNCHANGED <<kvSession, kvInfo, kvPreview, uuids, sbInit, reader, created,
                   firstDone,
                   gvars, hvars, xvars>>

\* lines 226-234: the double-check; a miss draws the new session id
LaunchRecheck(q) ==
    /\ launch[q].pc = "recheck"
    /\ IF kvSession[Key(q)] # 0
       THEN /\ Step(q, "releaseHit", [sessionId |-> kvSession[Key(q)]])
            /\ UNCHANGED uuids
       ELSE /\ Step(q, "putSession", [sessionId |-> uuids + 1])
            /\ uuids' = uuids + 1
    /\ UNCHANGED <<kvvars, sbInit, reader, created, firstDone,
                   gvars, hvars, xvars>>

\* the double-check hit with one change: initializeSandbox is handed the
\* session that was found
LaunchReleaseHit_Schedule(q) ==
    /\ launch[q].pc = "releaseHit"
    /\ kvLock' = [kvLock EXCEPT ![Key(q)] = 0]
    /\ sbInit' = [sbInit EXCEPT ![launch[q].sessionId] = "cloning"]
    /\ Step(q, "done", [resp |-> 302, released |-> TRUE])
    /\ UNCHANGED <<kvSession, kvInfo, kvPreview, uuids, reader, created,
                   firstDone,
                   gvars, hvars, xvars>>

\* lines 228-229
LaunchReleaseHit(q) ==
    /\ launch[q].pc = "releaseHit"
    /\ kvLock' = [kvLock EXCEPT ![Key(q)] = 0]
    /\ Step(q, "done", [resp |-> 302, released |-> TRUE])
    /\ UNCHANGED <<kvSession, kvInfo, kvPreview, uuids, sbInit, reader, created,
                   firstDone,
                   gvars, hvars, xvars>>

\* line 237
LaunchPutSession(q) ==
    /\ launch[q].pc = "putSession"
    /\ kvSession' = [kvSession EXCEPT ![Key(q)] = launch[q].sessionId]
    /\ created' = [created EXCEPT ![Key(q)] = @ \cup {launch[q].sessionId}]
    /\ Step(q, "putInfo", [wrote |-> launch[q].wrote \cup {"session"}])
    /\ UNCHANGED <<kvLock, kvInfo, kvPreview, uuids, sbInit, reader, firstDone,
                   gvars, hvars, xvars>>

\* lines 238-248
LaunchPutInfo(q) ==
    /\ launch[q].pc = "putInfo"
    /\ kvInfo' = [kvInfo EXCEPT ![launch[q].sessionId] =
                    [status |-> "initializing", error |-> ""]]
    /\ Step(q, "release", [wrote |-> launch[q].wrote \cup {"info"}])
    /\ UNCHANGED <<kvSession, kvLock, kvPreview, uuids, sbInit, reader, created,
                   firstDone,
                   gvars, hvars, xvars>>

\* lines 251-257: delete the lock, hand initializeSandbox to waitUntil, redirect
LaunchRelease(q) ==
    /\ launch[q].pc = "release"
    /\ kvLock' = [kvLock EXCEPT ![Key(q)] = 0]
    /\ sbInit' = [sbInit EXCEPT ![launch[q].sessionId] = "cloning"]
    /\ firstDone' = [firstDone EXCEPT ![Key(q)] =
                        IF @ = 0 /\ kvSession[Key(q)] # 0
                        THEN launch[q].sessionId ELSE @]
    /\ Step(q, "done", [resp |-> 302, released |-> TRUE])
    /\ UNCHANGED <<kvSession, kvInfo, kvPreview, uuids, reader, created,
                   gvars, hvars, xvars>>

\* the catch block without line 260: the exception is rethrown with the
\* lock left in place
LaunchThrow_KeepLock(q) ==
    /\ launch[q].pc \in {"putSession", "putInfo"}
    /\ UNCHANGED kvLock
    /\ Step(q, "done", [resp |-> 500])
    /\ UNCHANGED <<kvSession, kvInfo, kvPreview, uuids, sbInit, reader, created,
                   firstDone,
                   gvars, hvars, xvars>>

\* lines 233-248, 258-262: an exception inside the try block (getSandbox or a
\* KV put rejecting) is caught, the lock deleted and the exception rethrown
LaunchThrow(q) ==
    /\ launch[q].pc \in {"putSession", "putInfo"}
    /\ kvLock' = [kvLock EXCEPT ![Key(q)] = 0]
    /\ Step(q, "done", [resp |-> 500, released |-> TRUE])
    /\ UNCHANGED <<kvSession, kvInfo, kvPreview, uuids, sbInit, reader, created,
                   firstDone,
                   gvars, hvars, xvars>>

(***************************************************************************)
(* initializeSandbox and updateSessionStatus (src/src/index.ts 265-345).   *)
(* The record of a session is written by its own initializeSandbox only,   *)
(* so the read and the write of updateSessionStatus are one step.          *)
(***************************************************************************)
updateSessionStatus(s, status, error) ==
    IF kvInfo[s] # NoInfo
    THEN kvInfo' = [kvInfo EXCEPT ![s] = [status |-> status, error |-> error]]
    ELSE UNCHANGED kvInfo

\* line 274
InitCloning(s) ==
    /\ sbInit[s] = "cloning"
    /\ updateSessionStatus(s, "cloning", "")
    /\ sbInit' = [sbInit EXCEPT ![s] = "gitCheckout"]
    /\ UNCHANGED <<kvSession, kvLock, kvPreview, uuids, launch, reader, created,
                   firstDone,
                   gvars, hvars, xvars>>

\* lines 277-282: gitCheckout, then status `starting`
InitGitCheckout(s) ==
    /\ sbInit[s] = "gitCheckout"
    /\ updateSessionStatus(s, "starting", "")
    /\ sbInit' = [sbInit EXCEPT ![s] = "serve"]
    /\ UNCHANGED <<kvSession, kvLock, kvPreview, uuids, launch, reader, created,
                   firstDone,
                   gvars, hvars, xvars>>

\* lines 297-309: writeFile, exec of `opencode serve`, the 5 s pause, then
\* status `running`
InitServe(s) ==
    /\ sbInit[s] = "serve"
    /\ updateSessionStatus(s, "running", "")
    /\ sbInit' = [sbInit EXCEPT ![s] = "exposePort"]
    /\ UNCHANGED <<kvSession, kvLock, kvPreview, uuids, launch, reader, created,
                   firstDone,
                   gvars, hvars, xvars>>

\* lines 312-317: exposePort and the put of the preview URL; a failure of
\* either is logged and dropped
InitExposePort(s) ==
    /\ sbInit[s] = "exposePort"
    /\ \E ok \in BOOLEAN :
          kvPreview' = [kvPreview EXCEPT ![s] = IF ok THEN TRUE ELSE @]
    /\ sbInit' = [sbInit EXCEPT ![s] = "end"]
    /\ UNCHANGED <<kvSession, kvLock, kvInfo, uuids, launch, reader, created,
                   firstDone,
                   gvars, hvars, xvars>>

\* the catch block without line 320: the failure is logged and not stored
InitCatch_Silent(s) ==
    /\ sbInit[s] \in {"gitCheckout", "serve"}
    /\ sbInit' = [sbInit EXCEPT ![s] = "end"]
    /\ UNCHANGED <<kvSession, kvLock, kvInfo, kvPreview, uuids, launch, reader,
                   created, firstDone,
                   gvars, hvars, xvars>>

\* lines 318-321: gitCheckout, writeFile or exec threw
InitCatch(s) ==
    /\ sbInit[s] \in {"gitCheckout", "serve"}
    /\ updateSessionStatus(s, "error", sbInit[s])
    /\ sbInit' = [sbInit EXCEPT ![s] = "end"]
    /\ UNCHANGED <<kvSession, kvLock, kvPreview, uuids, launch, reader, created,
                   firstDone,
                   gvars, hvars, xvars>>

(***************************************************************************)
(* fetch: /api/status/ and /session/ (src/src/index.ts 96-112, 347-367)    *)
(***************************************************************************)
\* lines 96-112: the route validates the id before the handler runs
ReaderStart(kind, id) ==
    /\ reader.pc \in {"idle", "done"}
    /\ reader' = [IdleReader EXCEPT !.kind = kind, !.id = id,
                     !.pc = IF isValidSessionId(id) THEN "getInfo" ELSE "done",
                     !.resp = IF isValidSessionId(id) THEN 0 ELSE 400]
    /\ UNCHANGED <<kvvars, uuids, launch, sbInit, created, firstDone,
                   gvars, hvars, xvars>>

\* lines 348, 362
ReaderGetInfo ==
    /\ reader.pc = "getInfo"
    /\ reader' = [reader EXCEPT !.pc = "getPreview",
                     !.info = IF SessionNo(reader.id) = 0 THEN NoInfo
                              ELSE kvInfo[SessionNo(reader.id)]]
    /\ UNCHANGED <<kvvars, uuids, launch, sbInit, created, firstDone,
                   gvars, hvars, xvars>>

\* lines 349-358, 363-367
ReaderGetPreview ==
    /\ reader.pc = "getPreview"
    /\ reader' = [reader EXCEPT !.pc = "done",
                     !.previewUrl = IF SessionNo(reader.id) = 0 THEN FALSE
                                    ELSE kvPreview[SessionNo(reader.id)],
                     !.resp = IF reader.info = NoInfo THEN 404 ELSE 200]
    /\ UNCHANGED <<kvvars, uuids, launch, sbInit, created, firstDone,
                   gvars, hvars, xvars>>

\* The request dies between the put of the lock (line 222) and its delete
\* (lines 229, 251, 260): the runtime ends the invocation and no further
\* statement of the handler runs, the catch block included.
LaunchDie(q) ==
    /\ launch[q].pc \in {"recheck", "releaseHit", "putSession", "putInfo", "release"}
    /\ Step(q, "dead", <<>>)
    /\ UNCHANGED <<kvvars, uuids, sbInit, reader, created, firstDone,
                   gvars, hvars, xvars>>

\* a launch that arrives after request 1 has died and the lock of the
\* repository is gone
LaunchStartAfter(q, owner, repo) ==
    /\ launch[1].pc = "dead"
    /\ kvLock[<<owner, repo>>] = 0
    /\ LaunchStart(q, owner, repo)

(***************************************************************************)
(* KV expiry (expirationTtl, src/src/index.ts 222, 237, 247, 314, 342)     *)
(***************************************************************************)
ExpireLock(p) ==
    /\ kvLock[p] # 0
    /\ kvLock' = [kvLock EXCEPT ![p] = 0]
    /\ UNCHANGED <<kvSession, kvInfo, kvPreview, uuids, launch, sbInit, reader,
                   created, firstDone,
                   gvars, hvars, xvars>>

ExpireSession(p) ==
    /\ kvSession[p] # 0
    /\ kvSession' = [kvSession EXCEPT ![p] = 0]
    /\ created' = [created EXCEPT ![p] = {}]
    /\ firstDone' = [firstDone EXCEPT ![p] = 0]
    /\ launch' = [q \in Launches |->
                    IF Key(q) = p THEN [launch[q] EXCEPT !.after = 0] ELSE launch[q]]
    /\ UNCHANGED <<kvLock, kvInfo, kvPreview, uuids, sbInit, reader,
                   gvars, hvars, xvars>>

ExpireInfo(s) ==
    /\ kvInfo[s] # NoInfo
    /\ kvInfo' = [kvInfo EXCEPT ![s] = NoInfo]
    /\ UNCHANGED <<kvSession, kvLock, kvPreview, uuids, launch, sbInit, reader,
                   created, firstDone,
                   gvars, hvars, xvars>>

(***************************************************************************)
(* The Hono worker: state                                                  *)
(***************************************************************************)
\* launch requests issued in a run
MaxHonoLaunch == 2
\* session creations per client IP and hour (line 1032)
IpCap == 5
\* concurrent sessions per repository (line 1043)
RepoCap == 3

\* stop requests issued in a run
MaxStop == 1

HLaunches == 1..MaxHonoLaunch
HSessions == 1..MaxHonoLaunch

\* the :owner and :repo parameters a launch request may carry
HonoNames == LaunchOwners \X {<<"r">>}

\* the :sessionId parameter a request may carry
HonoIds == {randomUUID(n) : n \in HSessions} \cup {<<"1">>}

HSessionNo(id) ==
    IF \E n \in HSessions : randomUUID(n) = id
    THEN CHOOSE n \in HSessions : randomUUID(n) = id
    ELSE 0

\* a log entry, kept by its level; timestamp and message text are left out
LogEntry(level, message) == level

\* SessionInfo (src/src/types/index.ts); environment is <<>> for null and
\* <<config>> once set, previewUrl is FALSE for null
NoSession ==
    [status |-> "none", environment |-> <<>>, previewUrl |-> FALSE,
     logs |-> <<>>, error |-> ""]

\* /^[A-Z_][A-Z0-9_]*$/i (line 1240)
EnvNameOk(k) ==
    /\ Len(k) >= 1
    /\ k[1] \in Lower \cup Upper \cup {"_"}
    /\ \A i \in 2..Len(k) : k[i] \in Alnum \cup {"_"}

\* EnvironmentConfig as far as initializeSession reads it: whether an
\* install and a build command are present, previewable, and the names of
\* envVars
EnvironmentConfig(install, build, previewable, names) ==
    [installCommand |-> install, buildCommand |-> build,
     previewable |-> previewable, envVars |-> names]

\* the results analyzeRepository may return
Environments ==
    { EnvironmentConfig(TRUE, TRUE, TRUE, {<<"P", "O", "R", "T">>}),
      EnvironmentConfig(FALSE, FALSE, TRUE, {}),
      EnvironmentConfig(TRUE, FALSE, FALSE, {<<"1", "B", "A", "D">>}) }

IdleHLaunch ==
    [pc |-> "idle", owner |-> <<>>, repo |-> <<>>, ipSessionCount |-> 0,
     repoSessionCount |-> 0, existingSessionId |-> 0, sessionId |-> 0, resp |-> 0,
     kv |-> FALSE, dead |-> FALSE]

IdlePhase ==
    [pc |-> "none", sub |-> "get", current |-> NoSession, environment |-> <<>>,
     previewUrl |-> FALSE, error |-> "", ran |-> {}, install |-> ""]

IdleClient ==
    [op |-> "none", id |-> <<>>, pc |-> "idle", success |-> FALSE,
     sessionData |-> NoSession, found |-> FALSE, resp |-> 0, status |-> "",
     stops |-> 0, touched |-> FALSE]

InitHonoVars ==
    /\ hkvRate = 0
    /\ hkvRepo = [p \in HonoNames |-> 0]
    /\ hkvActive = [p \in HonoNames |-> 0]
    /\ hkvSession = [s \in HSessions |-> NoSession]
    /\ hUuids = 0
    /\ hLaunch = [q \in HLaunches |-> IdleHLaunch]
    /\ phase = [s \in HSessions |-> IdlePhase]
    /\ client = IdleClient
    /\ ipBefore = 0
    /\ repoBefore = [p \in HonoNames |-> 0]

HKey(q) == <<hLaunch[q].owner, hLaunch[q].repo>>

HStep(q, pc, upd) ==
    hLaunch' = [hLaunch EXCEPT ![q] =
                  [f \in DOMAIN hLaunch[q] |->
                     IF f = "pc" THEN pc
                     ELSE IF f \in DOMAIN upd THEN upd[f] ELSE hLaunch[q][f]]]

(***************************************************************************)
(* GET /github.com/:owner/:repo (ai-analyzer.ts 1019-1124), one action per *)
(* await.  The client IP is the same for every request.                    *)
(***************************************************************************)
\* lines 1020-1029: the route parameters are used as they arrive
HonoLaunchStart(q, owner, repo) ==
    /\ hLaunch[q].pc = "idle"
    /\ \A o \in 1..(q - 1) : hLaunch[o].pc # "idle"
    /\ hLaunch' = [hLaunch EXCEPT ![q] =
                     [IdleHLaunch EXCEPT !.pc = "getIpRate", !.owner = owner,
                                         !.repo = repo]]
    /\ UNCHANGED <<hkvvars, hUuids, phase, client, gvars, lvars, xvars>>

\* lines 1030-1037
HonoLaunchGetIpRate(q) ==
    /\ hLaunch[q].pc = "getIpRate"
    /\ IF hkvRate >= IpCap
       THEN HStep(q, "done", [ipSessionCount |-> hkvRate, resp |-> 429])
       ELSE HStep(q, "getRepoCount", [ipSessionCount |-> hkvRate])
    /\ UNCHANGED <<hkvvars, hUuids, phase, client, gvars, lvars, xvars>>

\* lines 1040-1048
HonoLaunchGetRepoCount(q) ==
    /\ hLaunch[q].pc = "getRepoCount"
    /\ IF hkvRepo[HKey(q)] >= RepoCap
       THEN HStep(q, "done", [repoSessionCount |-> hkvRepo[HKey(q)], resp |-> 429,
                              kv |-> TRUE])
       ELSE HStep(q, "getActive", [repoSessionCount |-> hkvRepo[HKey(q)],
                                   kv |-> TRUE])
    /\ UNCHANGED <<hkvvars, hUuids, phase, client, gvars, lvars, xvars>>

\* lines 1051-1054, 1075: without an index entry the new session id is drawn
HonoLaunchGetActive(q) ==
    /\ hLaunch[q].pc = "getActive"
    /\ IF hkvActive[HKey(q)] # 0
       THEN /\ HStep(q, "probe", [existingSessionId |-> hkvActive[HKey(q)]])
            /\ UNCHANGED hUuids
       ELSE /\ HStep(q, "putRepoCount", [sessionId |-> hUuids + 1])
            /\ hUuids' = hUuids + 1
    /\ UNCHANGED <<hkvvars, phase, client, gvars, lvars, xvars>>

\* lines 1056-1065, 1075: the liveness probe `echo "alive"` succeeds, returns
\* a failure, or throws
HonoLaunchProbe(q) ==
    /\ hLaunch[q].pc = "probe"
    /\ \/ /\ HStep(q, "done", [resp |-> 302, sessionId |-> hLaunch[q].existingSessionId])
          /\ UNCHANGED hUuids
       \/ /\ HStep(q, "putRepoCount", [sessionId |-> hUuids + 1])
          /\ hUuids' = hUuids + 1
       \/ /\ HStep(q, "deleteActive", [dead |-> TRUE])
          /\ UNCHANGED hUuids
    /\ UNCHANGED <<hkvvars, phase, client, gvars, lvars, xvars>>

\* lines 1066-1067, 1075
HonoLaunchDeleteActive(q) ==
    /\ hLaunch[q].pc = "deleteActive"
    /\ hkvActive' = [hkvActive EXCEPT ![HKey(q)] = 0]
    /\ IF hLaunch[q].repoSessionCount > 0
       THEN /\ HStep(q, "decrement", <<>>)
            /\ UNCHANGED hUuids
       ELSE /\ HStep(q, "putRepoCount", [sessionId |-> hUuids + 1])
            /\ hUuids' = hUuids + 1
    /\ UNCHANGED <<hkvRate, hkvRepo, hkvSession, phase, client, gvars, lvars, xvars>>

\* lines 1068, 1075
HonoLaunchDecrement(q) ==
    /\ hLaunch[q].pc = "decrement"
    /\ hkvRepo' = [hkvRepo EXCEPT ![HKey(q)] = hLaunch[q].repoSessionCount - 1]
    /\ HStep(q, "putRepoCount", [sessionId |-> hUuids + 1])
    /\ hUuids' = hUuids + 1
    /\ UNCHANGED <<hkvRate, hkvActive, hkvSession, phase, client, gvars, lvars, xvars>>

\* line 1078: the count read at line 1041, plus one
HonoLaunchPutRepoCount(q) ==
    /\ hLaunch[q].pc = "putRepoCount"
    /\ hkvRepo' = [hkvRepo EXCEPT ![HKey(q)] = hLaunch[q].repoSessionCount + 1]
    /\ HStep(q, "putIpRate", <<>>)
    /\ UNCHANGED <<hkvRate, hkvActive, hkvSession, hUuids, phase, client, gvars, lvars, xvars>>

\* lines 1080-1081
HonoLaunchPutIpRate(q) ==
    /\ hLaunch[q].pc = "putIpRate"
    /\ hkvRate' = hLaunch[q].ipSessionCount + 1
    /\ HStep(q, "putActive", <<>>)
    /\ UNCHANGED <<hkvRepo, hkvActive, hkvSession, hUuids, phase, client, gvars, lvars, xvars>>

\* line 1084
HonoLaunchPutActive(q) ==
    /\ hLaunch[q].pc = "putActive"
    /\ hkvActive' = [hkvActive EXCEPT ![HKey(q)] = hLaunch[q].sessionId]
    /\ HStep(q, "putSession", <<>>)
    /\ UNCHANGED <<hkvRate, hkvRepo, hkvSession, hUuids, phase, client, gvars, lvars, xvars>>

\* lines 1087-1115: the initial record, initializeSession handed to
\* waitUntil, the session page returned
HonoLaunchPutSession(q) ==
    /\ hLaunch[q].pc = "putSession"
    /\ hkvSession' = [hkvSession EXCEPT ![hLaunch[q].sessionId] =
                        [status |-> "initializing", environment |-> <<>>,
                         previewUrl |-> FALSE,
                         logs |-> <<LogEntry("info", "Initializing session")>>,
                         error |-> ""]]
    /\ phase' = [phase EXCEPT ![hLaunch[q].sessionId] =
                    [IdlePhase EXCEPT !.pc = "u_cloning"]]
    /\ HStep(q, "done", [resp |-> 200])
    /\ UNCHANGED <<hkvRate, hkvRepo, hkvActive, hUuids, client, gvars, lvars, xvars>>

(***************************************************************************)
(* initializeSession (ai-analyzer.ts 1127-1288).  phase[s].pc names the    *)
(* statement the task of session s is at: u_ an updateSession call, l_ an  *)
(* addLog call, x_ a sandbox or analysis call.  updateSession is two       *)
(* steps, the KV get (sub = "get") and the KV put (sub = "put").           *)
(***************************************************************************)
\* the `updates` argument: "" and <<>> stand for a field that is not given
Updates(status, environment, hasPreviewUrl, previewUrl, error, logs) ==
    [status |-> status, environment |-> environment,
     hasPreviewUrl |-> hasPreviewUrl, previewUrl |-> previewUrl,
     error |-> error, logs |-> logs]

StatusUpdate(status) == Updates(status, <<>>, FALSE, FALSE, "", <<>>)

\* lines 1149-1153
addLog(level, message) ==
    Updates("", <<>>, FALSE, FALSE, "", <<LogEntry(level, message)>>)

\* lines 1139-1142: { ...current, ...updates }, logs appended
Merge(current, updates) ==
    [status |-> IF updates.status # "" THEN updates.status ELSE current.status,
     environment |-> IF updates.environment # <<>> THEN updates.environment
                     ELSE current.environment,
     previewUrl |-> IF updates.hasPreviewUrl THEN updates.previewUrl
                    ELSE current.previewUrl,
     error |-> IF updates.error # "" THEN updates.error ELSE current.error,
     logs |-> current.logs \o updates.logs]

\* the argument of the updateSession or addLog call at each statement
UpdatesAt(ph) ==
    CASE ph.pc = "u_cloning" -> StatusUpdate("cloning")
      [] ph.pc = "l_cloning" -> addLog("info", "Cloning repository")
      [] ph.pc = "l_cloned" -> addLog("info", "Repository cloned successfully")
      [] ph.pc = "u_analyzing" -> StatusUpdate("analyzing")
      [] ph.pc = "l_analyzing" -> addLog("info", "Analyzing repository structure")
      [] ph.pc = "u_environment" ->
            Updates("", ph.environment, FALSE, FALSE, "", <<>>)
      [] ph.pc = "l_detected" -> addLog("info", "Detected environment")
      [] ph.pc = "l_confidence" -> addLog("info", "Confidence")
      [] ph.pc = "u_installing" -> StatusUpdate("installing")
      [] ph.pc = "l_installing" -> addLog("info", "Installing dependencies")
      [] ph.pc = "l_installWarn" -> addLog("warn", "Install completed with warnings")
      [] ph.pc = "l_installed" -> addLog("info", "Dependencies installed successfully")
      [] ph.pc = "u_building" -> StatusUpdate("building")
      [] ph.pc = "l_building" -> addLog("info", "Building project")
      [] ph.pc = "l_built" -> addLog("info", "Build completed successfully")
      [] ph.pc = "u_starting" -> StatusUpdate("starting")
      [] ph.pc = "l_starting" -> addLog("info", "Starting application")
      [] ph.pc = "l_preview" -> addLog("info", "Preview available")
      [] ph.pc = "l_noPreview" -> addLog("warn", "Could not expose port")
      [] ph.pc = "u_running" ->
            Updates("running", <<>>, TRUE, ph.previewUrl, "", <<>>)
      [] ph.pc = "l_started" -> addLog("info", "Application started successfully")
      [] ph.pc = "u_error" -> Updates("error", <<>>, FALSE, FALSE, ph.error, <<>>)
      [] ph.pc = "l_error" -> addLog("error", "Session failed")

UpdatePcs ==
    {"u_cloning", "l_cloning", "l_cloned", "u_analyzing", "l_analyzing",
     "u_environment", "l_detected", "l_confidence", "u_installing",
     "l_installing", "l_installWarn", "l_installed", "u_building", "l_building",
     "l_built", "u_starting", "l_starting", "l_preview", "l_noPreview",
     "u_running", "l_started", "u_error", "l_error"}

\* lines 1210, 1227
AfterInstall(environment) ==
    IF environment.buildCommand THEN "u_building" ELSE "u_starting"

\* the install phase entered whatever the configuration holds
AfterAnalysis_AlwaysInstall(environment) == "u_installing"

\* lines 1193, 1210, 1227
AfterAnalysis(environment) ==
    IF environment.installCommand THEN "u_installing" ELSE AfterInstall(environment)

\* the statement that follows each updateSession or addLog call
AfterUpdate(ph) ==
    CASE ph.pc = "u_cloning" -> "l_cloning"
      [] ph.pc = "l_cloning" -> "x_clone"
      [] ph.pc = "l_cloned" -> "u_analyzing"
      [] ph.pc = "u_analyzing" -> "l_analyzing"
      [] ph.pc = "l_analyzing" -> "x_analyze"
      [] ph.pc = "u_environment" -> "l_detected"
      [] ph.pc = "l_detected" -> "l_confidence"
      [] ph.pc = "l_confidence" -> AfterAnalysis(ph.environment[1])
      [] ph.pc = "u_installing" -> "l_installing"
      [] ph.pc = "l_installing" -> "x_install"
      [] ph.pc \in {"l_installWarn", "l_installed"} -> AfterInstall(ph.environment[1])
      [] ph.pc = "u_building" -> "l_building"
      [] ph.pc = "l_building" -> "x_build"
      [] ph.pc = "l_built" -> "u_starting"
      [] ph.pc = "u_starting" -> "l_starting"
      [] ph.pc = "l_starting" -> "x_start"
      [] ph.pc \in {"l_preview", "l_noPreview"} -> "u_running"
      [] ph.pc = "u_running" -> "l_started"
      [] ph.pc = "l_started" -> "end"
      [] ph.pc = "u_error" -> "l_error"
      [] ph.pc = "l_error" -> "end"

PhaseGoto(s, pc) == phase' = [phase EXCEPT ![s].pc = pc]

\* a sandbox call is issued (phase[s].ran keeps the calls issued so far),
\* then the task goes on at pc
PhaseRan(s, call, pc) ==
    phase' = [phase EXCEPT ![s].pc = pc, ![s].ran = @ \cup {call}]

\* a sandbox call is issued and fails or throws
PhaseRanThrow(s, call, message) ==
    phase' = [phase EXCEPT ![s].pc = "u_error", ![s].error = message,
                           ![s].ran = @ \cup {call}]

\* lines 1278-1285: the catch block takes the message of what was thrown
PhaseThrow(s, message) ==
    phase' = [phase EXCEPT ![s].pc = "u_error", ![s].error = message]

\* lines 1137-1138: read the record; nothing is written when it is absent
UpdateSessionGet(s) ==
    /\ phase[s].pc \in UpdatePcs
    /\ phase[s].sub = "get"
    /\ IF hkvSession[s] # NoSession
       THEN phase' = [phase EXCEPT ![s].sub = "put", ![s].current = hkvSession[s]]
       ELSE PhaseGoto(s, AfterUpdate(phase[s]))
    /\ UNCHANGED <<hkvvars, hUuids, hLaunch, client, gvars, lvars, xvars>>

\* lines 1139-1145: write the record read at line 1137 with the updates merged
UpdateSessionPut(s) ==
    /\ phase[s].pc \in UpdatePcs
    /\ phase[s].sub = "put"
    /\ hkvSession' = [hkvSession EXCEPT ![s] =
                        Merge(phase[s].current, UpdatesAt(phase[s]))]
    /\ phase' = [phase EXCEPT ![s].pc = AfterUpdate(phase[s]), ![s].sub = "get",
                              ![s].current = NoSession]
    /\ UNCHANGED <<hkvRate, hkvRepo, hkvActive, hUuids, hLaunch, client, gvars, lvars, xvars>>

\* the clone phase with one change: a failed clone is not thrown, the task
\* goes on to the analysis
PhaseClone_Continue(s) ==
    /\ phase[s].pc = "x_clone"
    /\ \/ PhaseRan(s, "clone", "l_cloned")
       \/ phase' = [phase EXCEPT ![s].pc = "l_cloned", ![s].error = "Clone failed",
                                  ![s].ran = @ \cup {"clone"}]
    /\ UNCHANGED <<hkvvars, hUuids, hLaunch, client, gvars, lvars, xvars>>

\* lines 1163-1169: git clone succeeds, or fails or throws
PhaseClone(s) ==
    /\ phase[s].pc = "x_clone"
    /\ \/ PhaseRan(s, "clone", "l_cloned")
       \/ PhaseRanThrow(s, "clone", "Clone failed")
    /\ UNCHANGED <<hkvvars, hUuids, hLaunch, client, gvars, lvars, xvars>>

\* lines 1177-1186: the GitHub reads and the analysis return an
\* environment, or one of them throws
PhaseAnalyze(s) ==
    /\ phase[s].pc = "x_analyze"
    /\ \/ \E environment \in Environments :
             phase' = [phase EXCEPT ![s].pc = "u_environment",
                                    ![s].environment = <<environment>>]
       \/ PhaseThrow(s, "Analysis failed")
    /\ UNCHANGED <<hkvvars, hUuids, hLaunch, client, gvars, lvars, xvars>>

\* what sandbox.exec resolves to: success is exitCode = 0
ExecResults == {[success |-> TRUE, exitCode |-> 0], [success |-> FALSE, exitCode |-> 1]}

\* lines 1197-1206: a failed install is logged as a warning, a rejected call
\* is caught at line 1278.  phase[s].install keeps how the call ended.
PhaseInstall(s) ==
    /\ phase[s].pc = "x_install"
    /\ \/ \E installResult \in ExecResults :
             phase' = [phase EXCEPT
                         ![s].pc = IF ~installResult.success
                                      /\ installResult.exitCode # 0
                                   THEN "l_installWarn" ELSE "l_installed",
                         ![s].ran = @ \cup {"install"},
                         ![s].install = IF installResult.success
                                        THEN "succeeded" ELSE "failed"]
       \/ phase' = [phase EXCEPT ![s].pc = "u_error", ![s].error = "Install threw",
                                  ![s].ran = @ \cup {"install"},
                                  ![s].install = "threw"]
    /\ UNCHANGED <<hkvvars, hUuids, hLaunch, client, gvars, lvars, xvars>>

\* lines 1214-1223
PhaseBuild(s) ==
    /\ phase[s].pc = "x_build"
    /\ \/ PhaseRan(s, "build", "l_built")
       \/ PhaseRanThrow(s, "build", "Build failed")
    /\ UNCHANGED <<hkvvars, hUuids, hLaunch, client, gvars, lvars, xvars>>

\* lines 1237-1260: an envVars name outside the pattern throws before the
\* start command is issued; the start command's own result is not read
PhaseStart(s) ==
    /\ phase[s].pc = "x_start"
    /\ IF \E k \in phase[s].environment[1].envVars : ~EnvNameOk(k)
       THEN PhaseThrow(s, "Invalid environment variable name")
       ELSE \/ PhaseRan(s, "start", IF phase[s].environment[1].previewable
                                     THEN "x_expose" ELSE "u_running")
            \/ PhaseRanThrow(s, "start", "Start threw")
    /\ UNCHANGED <<hkvvars, hUuids, hLaunch, client, gvars, lvars, xvars>>

\* exposePort with no try block of its own: a failure reaches line 1278
PhaseExpose_Fatal(s) ==
    /\ phase[s].pc = "x_expose"
    /\ \/ phase' = [phase EXCEPT ![s].pc = "l_preview", ![s].previewUrl = TRUE,
                                    ![s].ran = @ \cup {"expose"}]
       \/ PhaseRanThrow(s, "expose", "Could not expose port")
    /\ UNCHANGED <<hkvvars, hUuids, hLaunch, client, gvars, lvars, xvars>>

\* lines 1261-1270: exposePort returns a URL or throws
PhaseExpose(s) ==
    /\ phase[s].pc = "x_expose"
    /\ \/ phase' = [phase EXCEPT ![s].pc = "l_preview", ![s].previewUrl = TRUE,
                                    ![s].ran = @ \cup {"expose"}]
       \/ PhaseRan(s, "expose", "l_noPreview")
    /\ UNCHANGED <<hkvvars, hUuids, hLaunch, client, gvars, lvars, xvars>>

(***************************************************************************)
(* The session endpoints of the Hono worker, one request at a time:        *)
(* status (844-873), logs (876-890), stop (953-979), session page          *)
(* (1291-1307).  client.status is the status the response body carries,    *)
(* "" when it carries none; client.found tells whether the handler read a  *)
(* record, client.touched whether it has called the sandbox or the store.  *)
(***************************************************************************)
ClientOps == {"status", "logs", "stop", "page"}

ClientDone(resp, status, sessionData) ==
    client' = [client EXCEPT !.pc = "done", !.resp = resp, !.status = status,
                             !.found = sessionData # NoSession,
                             !.sessionData = NoSession, !.touched = TRUE]

\* lines 845, 877, 954, 1292: the :sessionId parameter is taken as it arrives
ClientStart(op, id) ==
    /\ client.pc \in {"idle", "done"}
    /\ op = "stop" => client.stops < MaxStop
    /\ client' = [IdleClient EXCEPT !.op = op, !.id = id,
                     !.pc = IF op \in {"status", "stop"} THEN "exec" ELSE "get",
                     !.stops = client.stops + IF op = "stop" THEN 1 ELSE 0]
    /\ UNCHANGED <<hkvvars, hUuids, hLaunch, phase, gvars, lvars, xvars>>

\* lines 849-850, 865-871: the probe succeeds, fails or throws
StatusExec ==
    /\ client.op = "status"
    /\ client.pc = "exec"
    /\ \/ \E success \in BOOLEAN :
             client' = [client EXCEPT !.pc = "get", !.success = success,
                                      !.touched = TRUE]
       \/ ClientDone(200, "error", NoSession)
    /\ UNCHANGED <<hkvvars, hUuids, hLaunch, phase, gvars, lvars, xvars>>

\* the read at line 853 of an id, NoSession when nothing is stored under it
GetSession(id) ==
    IF HSessionNo(id) # 0 THEN hkvSession[HSessionNo(id)] ELSE NoSession

\* the status read with one change: the basic status computed for an id
\* without a record is stored under the id
StatusGet_Caching ==
    /\ client.op = "status"
    /\ client.pc = "get"
    /\ IF GetSession(client.id) # NoSession
       THEN /\ ClientDone(200, GetSession(client.id).status, GetSession(client.id))
            /\ UNCHANGED hkvSession
       ELSE /\ ClientDone(200, IF client.success THEN "running" ELSE "stopped",
                          NoSession)
            /\ hkvSession' =
                 [s \in HSessions |->
                    IF s = HSessionNo(client.id)
                    THEN [NoSession EXCEPT !.status =
                            IF client.success THEN "running" ELSE "stopped"]
                    ELSE hkvSession[s]]
    /\ UNCHANGED <<hkvRate, hkvRepo, hkvActive, hUuids, hLaunch, phase, gvars, lvars, xvars>>

\* lines 853-864: the record when there is one, else a status made from the
\* probe's result
StatusGet ==
    /\ client.op = "status"
    /\ client.pc = "get"
    /\ IF GetSession(client.id) # NoSession
       THEN ClientDone(200, GetSession(client.id).status, GetSession(client.id))
       ELSE ClientDone(200, IF client.success THEN "running" ELSE "stopped",
                       NoSession)
    /\ UNCHANGED <<hkvvars, hUuids, hLaunch, phase, gvars, lvars, xvars>>

\* lines 880-886: the logs of the record, or an empty list
LogsGet ==
    /\ client.op = "logs"
    /\ client.pc = "get"
    /\ ClientDone(200, "", GetSession(client.id))
    /\ UNCHANGED <<hkvvars, hUuids, hLaunch, phase, gvars, lvars, xvars>>

\* lines 1295-1303
PageGet ==
    /\ client.op = "page"
    /\ client.pc = "get"
    /\ IF GetSession(client.id) # NoSession
       THEN ClientDone(200, "", GetSession(client.id))
       ELSE ClientDone(404, "", NoSession)
    /\ UNCHANGED <<hkvvars, hUuids, hLaunch, phase, gvars, lvars, xvars>>

\* lines 957-961, 973-977: pkill in the sandbox of the id; `|| true` makes
\* the command succeed, the call itself may throw
StopExec ==
    /\ client.op = "stop"
    /\ client.pc = "exec"
    /\ \/ client' = [client EXCEPT !.pc = "get", !.touched = TRUE]
       \/ ClientDone(500, "", NoSession)
    /\ UNCHANGED <<hkvvars, hUuids, hLaunch, phase, gvars, lvars, xvars>>

\* lines 964-965, 972
StopGet ==
    /\ client.op = "stop"
    /\ client.pc = "get"
    /\ IF GetSession(client.id) # NoSession
       THEN client' = [client EXCEPT !.pc = "put",
                                     !.sessionData = GetSession(client.id)]
       ELSE ClientDone(200, "stopped", NoSession)
    /\ UNCHANGED <<hkvvars, hUuids, hLaunch, phase, gvars, lvars, xvars>>

\* lines 966-972: the record read at line 964 is written back with status
\* 'stopped'
StopPut ==
    /\ client.op = "stop"
    /\ client.pc = "put"
    /\ hkvSession' = [hkvSession EXCEPT ![HSessionNo(client.id)] =
                        [client.sessionData EXCEPT !.status = "stopped"]]
    /\ ClientDone(200, "stopped", client.sessionData)
    /\ UNCHANGED <<hkvRate, hkvRepo, hkvActive, hUuids, hLaunch, phase, gvars, lvars, xvars>>

\* the session record's expirationTtl (lines 1108, 1144, 968) runs out.
\* Every write renews it for at least 3600 s and the steps between two
\* writes of a task or of a stop request are sandbox calls of at most 300 s,
\* so the record runs out only when neither is under way.
HonoExpireSession(s) ==
    /\ hkvSession[s] # NoSession
    /\ phase[s].pc = "end"
    /\ ~(client.op = "stop" /\ client.pc = "put" /\ client.id = randomUUID(s))
    /\ hkvSession' = [hkvSession EXCEPT ![s] = NoSession]
    /\ UNCHANGED <<hkvRate, hkvRepo, hkvActive, hUuids, hLaunch, phase, client,
                   gvars, lvars, xvars>>

(***************************************************************************)
(* The command line of the start phase.  A string is the sequence of its   *)
(* characters.  initializeSession builds the line at ai-analyzer.ts        *)
(* 1232-1253, SessionHandler.startApplication at part_004 189-198; both    *)
(* hand it to sandbox.exec, which runs it in a shell.                      *)
(***************************************************************************)
\* arg.replace(/'/g, "'\\''") (lines 1234 and 1253)
RECURSIVE ReplaceQuotes(_)
ReplaceQuotes(arg) ==
    IF arg = <<>> THEN <<>>
    ELSE (IF Head(arg) = "'" THEN <<"'", "\\", "'", "'">> ELSE <<Head(arg)>>)
         \o ReplaceQuotes(Tail(arg))

\* lines 1232-1235
escapeShellArg(arg) == <<"'">> \o ReplaceQuotes(arg) \o <<"'">>

\* lines 1237-1246, for one entry [k, v] of envVars
envVarsStr(k, v) ==
    <<"e","x","p","o","r","t"," ">> \o k \o <<"=">> \o escapeShellArg(v)

\* lines 1248-1250, envVarsStr not empty
startCmd(k, v, startCommand) ==
    <<"c","d"," ","/","w","o","r","k","s","p","a","c","e","/","r","e","p",
      "o"," ","&","&"," ">>
    \o envVarsStr(k, v) \o <<" ", "&", "&", " ">> \o startCommand

\* line 1253: the argument of sandbox.exec
StartExecLine(k, v, startCommand) ==
    <<"n","o","h","u","p"," ","s","h"," ","-","c"," ","'">>
    \o ReplaceQuotes(startCmd(k, v, startCommand))
    \o <<"'"," ",">"," ","/","t","m","p","/","a","p","p",".","l","o","g"," ",
      "2",">","&","1"," ","&">>

\* part_004 lines 189-195, for one entry [k, v] of envVars
HandlerStartCmd(k, v, startCommand) ==
    <<"c","d"," ","/","w","o","r","k","s","p","a","c","e","/","r","e","p",
      "o"," ","&","&"," ">>
    \o k \o <<"=", "\"">> \o v \o <<"\"", " ">> \o startCommand

\* part_004 line 198: the argument of sandbox.exec
HandlerExecLine(k, v, startCommand) ==
    HandlerStartCmd(k, v, startCommand) \o <<" ", "&">>

(***************************************************************************)
(* The shell that sandbox.exec runs the line in, as far as these lines use *)
(* it: quoting with ', " and \, parameter and command expansion by $,      *)
(* words split at blanks, commands split at ; & and |, redirections, and   *)
(* `sh -c word`, which runs the word as a command line of its own.         *)
(* A token is a word (op = "") or an operator.                             *)
(***************************************************************************)
ShWord(text) == [op |-> "", text |-> text]
ShOp(op) == [op |-> op, text |-> <<>>]
ShSeparators == {";", "&", "|"}
ShRedirections == {">", "<"}

\* what an expansion leaves in a word: not the characters that were written
ShExpansion == "$..."

\* $ followed by a name, a digit, ( or { starts an expansion
ShExpands(s, i) ==
    /\ s[i] = "$"
    /\ i < Len(s)
    /\ s[i + 1] \in Alnum \cup {"_", "(", "{"}

ShFlush(acc, cur, inWord) == IF inWord THEN Append(acc, ShWord(cur)) ELSE acc

\* the lexer's state: mode is "n" outside quotes, "s" inside '...', "d"
\* inside "..."; cur is the word under way, acc the tokens so far; skip
\* tells that the character at hand was consumed with the one before it
ShStart == [mode |-> "n", cur |-> <<>>, inWord |-> FALSE, acc |-> <<>>, skip |-> FALSE]

ShPut(st, c) == [st EXCEPT !.cur = Append(@, c), !.inWord = TRUE, !.skip = FALSE]

ShPutNext(st, c) == [st EXCEPT !.cur = Append(@, c), !.inWord = TRUE, !.skip = TRUE]

ShMode(st, mode) == [st EXCEPT !.mode = mode, !.inWord = TRUE, !.skip = FALSE]

ShEnd(st) == ShFlush(st.acc, st.cur, st.inWord)

ShCut(st, toks, skip) ==
    [st EXCEPT !.cur = <<>>, !.inWord = FALSE, !.acc = ShEnd(st) \o toks, !.skip = skip]

\* the lexer takes the character at position i of s
ShStep(st, s, i) ==
    LET c == s[i] IN
    CASE st.skip -> [st EXCEPT !.skip = FALSE]
      [] ~st.skip /\ st.mode = "s" ->
            IF c = "'" THEN ShMode(st, "n") ELSE ShPut(st, c)
      [] ~st.skip /\ st.mode = "d" ->
            CASE c = "\"" -> ShMode(st, "n")
              [] c = "\\" /\ i < Len(s) /\ s[i + 1] \in {"$", "\"", "\\"} ->
                    ShPutNext(st, s[i + 1])
              [] ShExpands(s, i) -> ShPut(st, ShExpansion)
              [] OTHER -> ShPut(st, c)
      [] OTHER ->
            CASE c = "'" -> ShMode(st, "s")
              [] c = "\"" -> ShMode(st, "d")
              [] c = "\\" /\ i < Len(s) -> ShPutNext(st, s[i + 1])
              [] c = " " -> ShCut(st, <<>>, FALSE)
              [] c \in ShRedirections ->
                    ShCut(st, <<ShOp(c)>>, i < Len(s) /\ s[i + 1] = "&")
              [] c \in ShSeparators -> ShCut(st, <<ShOp(c)>>, FALSE)
              [] ShExpands(s, i) -> ShPut(st, ShExpansion)
              [] OTHER -> ShPut(st, c)

\* the lexer's state at the end of s, from state st before position i
RECURSIVE ShScan(_, _, _)
ShScan(s, i, st) ==
    IF st.skip \in BOOLEAN /\ i > Len(s) THEN st ELSE ShScan(s, i + 1, ShStep(st, s, i))

\* the tokens of s; an open quote at the end is an error of the shell
ShLex(s) ==
    LET st == ShScan(s, 1, ShStart) IN
    IF st.mode = "n" THEN ShEnd(st) ELSE Append(ShEnd(st), ShOp("unterminated"))

\* the commands of a token list: the runs of tokens between separators
RECURSIVE ShSplit(_, _, _)
ShSplit(toks, cur, acc) ==
    LET flushed == IF cur # <<>> THEN Append(acc, cur) ELSE acc IN
    IF toks = <<>> THEN flushed
    ELSE IF Head(toks).op \in ShSeparators
    THEN ShSplit(Tail(toks), <<>>, flushed)
    ELSE ShSplit(Tail(toks), Append(cur, Head(toks)), acc)

ShCommands(line) == ShSplit(ShLex(line), <<>>, <<>>)

ShDashC == <<ShWord(<<"n","o","h","u","p">>), ShWord(<<"s","h">>), ShWord(<<"-","c">>)>>

\* the commands a list of commands performs: `nohup sh -c word` performs
\* the commands of the word
RECURSIVE ShPerform(_)
ShPerform(cmds) ==
    IF cmds = <<>> THEN <<>>
    ELSE LET cmd == Head(cmds) IN
         (IF Len(cmd) >= 4 /\ SubSeq(cmd, 1, 3) = ShDashC /\ cmd[4].op = ""
          THEN ShCommands(cmd[4].text) ELSE <<cmd>>)
         \o ShPerform(Tail(cmds))

ShRun(line) == ShPerform(ShCommands(line))

\* the values of the one environment variable: every string up to
\* MaxValueLen over ShAlphabet, and the example `O'Brien; rm -rf /`
MaxValueLen == 3
ShAlphabet == {"a", "'", "\"", ";", "$", "\\", " "}
OBrien ==
    <<"O","'","B","r","i","e","n",";"," ","r","m"," ","-","r","f"," ","/">>
EnvValues ==
    UNION {[1..n -> ShAlphabet] : n \in 0..MaxValueLen} \cup {OBrien}
EnvName == <<"K">>
startCommand == <<"n","p","m"," ","s","t","a","r","t">>

\* part_004 lines 15-21: the fields of a new SessionHandler
IdleHandler ==
    [pc |-> "idle", repoOwner |-> <<>>, repoName |-> <<>>,
     status |-> "initializing", logs |-> <<>>, environment |-> <<>>,
     previewUrl |-> FALSE, error |-> "", thrown |-> "", outcome |-> ""]

(***************************************************************************)
(* AIAnalyzer (ai-analyzer.ts 15-355).  A path is the sequence of its      *)
(* segments, a command the sequence of its words.  configContents keeps,   *)
(* per file name, <<>> for a name that is absent and <<contents>> for one  *)
(* that is present; the contents of package.json are what JSON.parse makes *)
(* of them, and those of requirements.txt the framework names they         *)
(* include.  An absent field of the classifier's answer is <<>>.           *)
(***************************************************************************)
\* p === name || p.endsWith('/' + name) (lines 59-69)
HasFile(files, name) ==
    \E p \in files : p = <<name>> \/ (Len(p) >= 2 /\ p[Len(p)] = name)

\* lines 52-77, the fields buildEnvironmentConfig reads
analyzeFiles(files, configContents) ==
    [hasPackageJson |-> HasFile(files, "package.json"),
     hasRequirementsTxt |-> HasFile(files, "requirements.txt"),
     hasCargoToml |-> HasFile(files, "Cargo.toml"),
     hasGoMod |-> HasFile(files, "go.mod"),
     hasGemfile |-> HasFile(files, "Gemfile"),
     hasComposerJson |-> HasFile(files, "composer.json")]

\* String.prototype.replace with a string pattern: the first occurrence
ReplaceFirst(cmd, word, by) ==
    IF \E i \in 1..Len(cmd) : cmd[i] = word
    THEN LET i == CHOOSE k \in 1..Len(cmd) :
                     cmd[k] = word /\ \A j \in 1..(k - 1) : cmd[j] # word
         IN SubSeq(cmd, 1, i - 1) \o by \o SubSeq(cmd, i + 1, Len(cmd))
    ELSE cmd

\* a || b for strings
OrElse(a, b) == IF a = <<>> THEN b ELSE a

\* whether a string value is truthy: present and not empty
Truthy(contents) == contents # <<>> /\ contents[1].kind # "empty"

\* lines 340-354
getEnvironmentName(type) ==
    CASE type = "nodejs" -> "Node.js"
      [] type = "python" -> "Python"
      [] type = "rust" -> "Rust"
      [] type = "go" -> "Go"
      [] type = "ruby" -> "Ruby"
      [] type = "php" -> "PHP"
      [] type = "java" -> "Java"
      [] type = "static" -> "Static Site"
      [] type = "docker" -> "Docker"
      [] OTHER -> "Unknown"

\* lines 328-337
EnvironmentOf(type, port, installCommand, buildCommand, start, aiResponse) ==
    [type |-> type, name |-> getEnvironmentName(type), port |-> port,
     installCommand |-> installCommand, buildCommand |-> buildCommand,
     startCommand |-> start, envVars |-> aiResponse.config.envVars,
     previewable |-> type \in {"nodejs", "python", "ruby", "php", "go", "rust"}]

\* lines 252-261
PackageManagerInstall(configContents) ==
    IF Truthy(configContents.bunLockb) THEN <<"bun", "install">>
    ELSE IF Truthy(configContents.pnpmLock) THEN <<"pnpm", "install">>
    ELSE IF Truthy(configContents.yarnLock) THEN <<"yarn", "install">>
    ELSE <<"npm", "install">>

\* lines 276-287, for the dependencies the inputs carry
FrameworkPort(dependencies, port) ==
    IF dependencies = <<>> THEN port
    ELSE IF "next" \in dependencies[1] THEN 3000
    ELSE IF "vite" \in dependencies[1] THEN 5173
    ELSE IF "express" \in dependencies[1] THEN 3000
    ELSE port

\* what the caller sees when JSON.parse throws at line 250
Threw == [threw |-> "SyntaxError"]

\* lines 235-338
buildEnvironmentConfig(fileAnalysis, aiResponse, configContents) ==
    LET type == aiResponse.environmentType
        installCommand == aiResponse.config.installCommand
        buildCommand == aiResponse.config.buildCommand
        start == OrElse(aiResponse.config.startCommand,
                               <<"echo", "No start command">>)
        port == IF aiResponse.config.port = <<>> THEN 3000
                ELSE aiResponse.config.port[1]
    IN
    IF fileAnalysis.hasPackageJson /\ Truthy(configContents.packageJson)
    THEN LET pkg == configContents.packageJson[1]
             install == PackageManagerInstall(configContents)
             scripts == IF pkg.scripts = <<>> THEN {} ELSE pkg.scripts[1]
         IN IF pkg.kind = "invalid" THEN Threw
            ELSE EnvironmentOf("nodejs", FrameworkPort(pkg.dependencies, port),
                   install,
                   IF "build" \in scripts
                   THEN OrElse(ReplaceFirst(install, "install", <<"run", "build">>),
                               <<"npm", "run", "build">>)
                   ELSE buildCommand,
                   IF "dev" \in scripts
                   THEN OrElse(ReplaceFirst(install, "install", <<"run", "dev">>),
                               <<"npm", "run", "dev">>)
                   ELSE IF "start" \in scripts
                   THEN OrElse(ReplaceFirst(install, "install", <<"start">>),
                               <<"npm", "start">>)
                   ELSE start,
                   aiResponse)
    ELSE IF fileAnalysis.hasRequirementsTxt \/ Truthy(configContents.pyproject)
    THEN LET requirements == IF configContents.requirements = <<>> THEN {}
                             ELSE configContents.requirements[1].includes
         IN IF "flask" \in requirements
            THEN EnvironmentOf("python", 5000,
                               <<"pip", "install", "-r", "requirements.txt">>,
                               buildCommand,
                               <<"flask", "run", "--host=0.0.0.0">>, aiResponse)
            ELSE IF "fastapi" \in requirements
            THEN EnvironmentOf("python", 8000,
                               <<"pip", "install", "-r", "requirements.txt">>,
                               buildCommand,
                               <<"uvicorn", "main:app", "--host", "0.0.0.0",
                                 "--port", "8000">>, aiResponse)
            ELSE IF "django" \in requirements
            THEN EnvironmentOf("python", 8000,
                               <<"pip", "install", "-r", "requirements.txt">>,
                               buildCommand,
                               <<"python", "manage.py", "runserver", "0.0.0.0:8000">>,
                               aiResponse)
            ELSE EnvironmentOf("python", port,
                               <<"pip", "install", "-r", "requirements.txt">>,
                               buildCommand, start, aiResponse)
    ELSE IF fileAnalysis.hasCargoToml
    THEN EnvironmentOf("rust", 8080, <<>>, <<"cargo", "build", "--release">>,
                       <<"cargo", "run">>, aiResponse)
    ELSE IF fileAnalysis.hasGoMod
    THEN EnvironmentOf("go", 8080, <<"go", "mod", "download">>,
                       <<"go", "build", "-o", "app">>, <<"./app">>, aiResponse)
    ELSE IF fileAnalysis.hasGemfile
    THEN EnvironmentOf("ruby", 4567, <<"bundle", "install">>, buildCommand,
                       <<"bundle", "exec", "ruby", "app.rb">>, aiResponse)
    ELSE IF fileAnalysis.hasComposerJson
    THEN EnvironmentOf("php", 8000, <<"composer", "install">>, buildCommand,
                       <<"php", "-S", "0.0.0.0:8000">>, aiResponse)
    ELSE EnvironmentOf(type, port, installCommand, buildCommand, start,
                       aiResponse)

\* the file lists of the requests
AnFileSets ==
    { {},
      {<<"package.json">>},
      {<<"web">>, <<"web", "package.json">>},
      {<<"requirements.txt">>},
      {<<"Cargo.toml">>, <<"src">>},
      {<<"go.mod">>},
      {<<"Gemfile">>},
      {<<"composer.json">>},
      {<<"package.json">>, <<"requirements.txt">>} }

Present(kind) == <<[kind |-> kind, scripts |-> <<>>, dependencies |-> <<>>,
                    includes |-> {}]>>

\* the contents package.json may have
AnPackages ==
    {<<>>, Present("empty"), Present("invalid")}
    \cup { <<[kind |-> "json", scripts |-> s, dependencies |-> d, includes |-> {}]>> :
             s \in {<<>>, <<{}>>, <<{"dev"}>>, <<{"start"}>>, <<{"build"}>>,
                    <<{"start", "build"}>>},
             d \in {<<>>, <<{"vite"}>>} }

\* the contents requirements.txt may have
AnRequirements ==
    {<<>>}
    \cup { <<[kind |-> "text", scripts |-> <<>>, dependencies |-> <<>>,
              includes |-> i]>> : i \in {{}, {"flask"}, {"django"}} }

AnConfigContents ==
    { [packageJson |-> pkg, bunLockb |-> <<>>, pnpmLock |-> lock, yarnLock |-> <<>>,
       pyproject |-> py, requirements |-> req] :
        pkg \in AnPackages, lock \in {<<>>, Present("text")},
        py \in {<<>>, Present("text")}, req \in AnRequirements }

\* what getAIAnalysis may return (lines 161-233): the classifier's JSON or
\* the default analysis
AnResponses ==
    { [environmentType |-> "unknown",
       config |-> [installCommand |-> <<>>, buildCommand |-> <<>>,
                   startCommand |-> <<"echo", "Please configure start command manually">>,
                   port |-> <<3000>>, envVars |-> {}]] }
    \cup { [environmentType |-> type,
            config |-> [installCommand |-> <<"make", "deps">>,
                        buildCommand |-> build, startCommand |-> start,
                        port |-> <<9000>>, envVars |-> {}]] :
             type \in {"docker", "nodejs"}, build \in {<<>>, <<"make">>},
             start \in {<<>>, <<"make", "run">>} }

InitAnalyzerVars ==
    /\ anIn = <<>>
    /\ anFiles = <<>>
    /\ anOut = <<>>

\* lines 22-29: the request arrives and analyzeFiles runs
AnalyzeFiles ==
    /\ anIn # <<>>
    /\ anFiles = <<>>
    /\ anFiles' = <<analyzeFiles(anIn[1].files, anIn[1].configContents)>>
    /\ UNCHANGED <<anIn, anOut, shvars, handler, evars, bvars, gvars, lvars, hvars>>

\* lines 35-50: the classifier has answered, the two analyses are merged
BuildEnvironmentConfig ==
    /\ anFiles # <<>>
    /\ anOut = <<>>
    /\ anOut' = <<buildEnvironmentConfig(anFiles[1], anIn[1].aiResponse,
                                         anIn[1].configContents)>>
    /\ UNCHANGED <<anIn, anFiles, shvars, handler, evars, bvars, gvars, lvars, hvars>>

(***************************************************************************)
(* POST /api/exec/:sessionId (ai-analyzer.ts 895-950), for the requests of *)
(* one session.  execReq[r].execCount is the count the request read at     *)
(* line 919.                                                               *)
(***************************************************************************)
ExecCap == 30
MaxExec == 2
ExecRequests == 1..MaxExec
IdleExec == [pc |-> "idle", execCount |-> 0, resp |-> 0]

InitExecVars ==
    /\ hkvExec = 0
    /\ execReq = [r \in ExecRequests |-> IdleExec]
    /\ execRan = 0

\* lines 897-915: a body without a command, or one that matches a dangerous
\* pattern, is answered 400
ExecStart(r, command) ==
    /\ execReq[r].pc \in {"idle", "done"}
    /\ execReq' = [execReq EXCEPT ![r] =
                     IF command \in {"missing", "dangerous"}
                     THEN [IdleExec EXCEPT !.pc = "done", !.resp = 400]
                     ELSE [IdleExec EXCEPT !.pc = "getRate"]]
    /\ UNCHANGED <<hkvExec, execRan, shvars, handler, bvars, avars, gvars,
                   lvars, hvars>>

\* lines 918-923
ExecGetRate(r) ==
    /\ execReq[r].pc = "getRate"
    /\ execReq' = [execReq EXCEPT ![r] =
                     IF hkvExec # 0 /\ hkvExec >= ExecCap
                     THEN [@ EXCEPT !.pc = "done", !.resp = 429]
                     ELSE [@ EXCEPT !.pc = "exec", !.execCount = hkvExec]]
    /\ UNCHANGED <<hkvExec, execRan, shvars, handler, bvars, avars, gvars,
                   lvars, hvars>>

\* lines 926-932, 944-948: the command runs in the sandbox, or the call
\* throws and the answer is 500
ExecRun(r) ==
    /\ execReq[r].pc = "exec"
    /\ execRan < ExecCap + MaxExec
    /\ \/ /\ execReq' = [execReq EXCEPT ![r].pc = "putRate"]
          /\ execRan' = execRan + 1
       \/ /\ execReq' = [execReq EXCEPT ![r] = [@ EXCEPT !.pc = "done", !.resp = 500]]
          /\ UNCHANGED execRan
    /\ UNCHANGED <<hkvExec, shvars, handler, bvars, avars, gvars,
                   lvars, hvars>>

\* lines 935-943: the count read at line 919 plus one is stored for 60 s
ExecPutRate(r) ==
    /\ execReq[r].pc = "putRate"
    /\ hkvExec' = IF execReq[r].execCount # 0 THEN execReq[r].execCount + 1 ELSE 1
    /\ execReq' = [execReq EXCEPT ![r] = [@ EXCEPT !.pc = "done", !.resp = 200]]
    /\ UNCHANGED <<execRan, shvars, handler, bvars, avars, gvars,
                   lvars, hvars>>

\* the counter's expirationTtl of 60 s (line 936) runs out
ExpireExecRate ==
    /\ hkvExec # 0
    /\ hkvExec' = 0
    /\ execRan' = 0
    /\ UNCHANGED <<execReq, shvars, handler, bvars, avars, gvars,
                   lvars, hvars>>

InitShellVars ==
    /\ shValue = <<>>
    /\ shBy = ""
    /\ shLine = <<>>
    /\ shRun = <<>>
    /\ handler = IdleHandler
    /\ InitExecVars
    /\ InitAnalyzerVars

\* ai-analyzer.ts line 1253
StartExec ==
    /\ shBy = ""
    /\ shBy' = "initializeSession"
    /\ shLine' = StartExecLine(EnvName, shValue, startCommand)
    /\ shRun' = ShRun(shLine')
    /\ UNCHANGED <<shValue, handler, evars, bvars, avars, gvars, lvars, hvars>>

\* part_004 line 198
startApplication ==
    /\ shBy = ""
    /\ shBy' = "SessionHandler"
    /\ shLine' = HandlerExecLine(EnvName, shValue, startCommand)
    /\ shRun' = ShRun(shLine')
    /\ UNCHANGED <<shValue, handler, evars, bvars, avars, gvars, lvars, hvars>>

(***************************************************************************)
(* SessionHandler (src/unnamed/part_004 11-243).  handler holds the fields *)
(* of one instance: status, logs (by level), environment, previewUrl and   *)
(* error, with pc the method initialize() is about to call, thrown what a  *)
(* method threw, and outcome how the promise of initialize() settled.      *)
(***************************************************************************)
\* lines 45-48: setStatus logs the change
setStatus(h, status) ==
    [h EXCEPT !.status = status, !.logs = Append(@, LogEntry("info", "Status changed to"))]

\* lines 33-43
log(h, level, message) == [h EXCEPT !.logs = Append(@, LogEntry(level, message))]

\* a method throws: control passes to the catch block at line 90
HandlerThrow(h, message) == [h EXCEPT !.pc = "catch", !.thrown = message]

\* lines 79-89: the method initialize() calls after analyzeRepository
HandlerAfterAnalysis(environment) ==
    IF environment.installCommand THEN "install"
    ELSE IF environment.buildCommand THEN "build" ELSE "start"

\* lines 65-70
initialize(owner, repo) ==
    /\ handler.pc = "idle"
    /\ handler' = log([handler EXCEPT !.pc = "clone", !.repoOwner = owner,
                                      !.repoName = repo],
                      "info", "Initializing session")
    /\ UNCHANGED <<shvars, evars, bvars, avars, gvars, lvars, hvars>>

\* lines 98-116
cloneRepository ==
    /\ handler.pc = "clone"
    /\ LET h == log(setStatus(handler, "cloning"), "info", "Cloning repository") IN
       \/ \E result \in ExecResults :
             handler' = IF ~result.success
                        THEN HandlerThrow(h, "Failed to clone repository")
                        ELSE [log(h, "info", "Repository cloned successfully")
                                EXCEPT !.pc = "analyze"]
       \/ handler' = HandlerThrow(h, "exec rejected")
    /\ UNCHANGED <<shvars, evars, bvars, avars, gvars, lvars, hvars>>

\* lines 118-141
analyzeRepository ==
    /\ handler.pc = "analyze"
    /\ LET h == log(setStatus(handler, "analyzing"), "info", "Analyzing") IN
       \/ \E environment \in Environments :
             handler' = [log(log(log(h, "info", "Detected environment"),
                                 "info", "Confidence"), "debug", "Reasoning")
                           EXCEPT !.environment = <<environment>>,
                                  !.pc = HandlerAfterAnalysis(environment)]
       \/ handler' = HandlerThrow(h, "analysis rejected")
    /\ UNCHANGED <<shvars, evars, bvars, avars, gvars, lvars, hvars>>

\* lines 143-160
installDependencies ==
    /\ handler.pc = "install"
    /\ LET h == log(setStatus(handler, "installing"), "info", "Installing") IN
       \/ \E result \in ExecResults :
             handler' = [log(IF ~result.success
                             THEN log(h, "warn", "Install warning") ELSE h,
                             "info", "Dependencies installed")
                           EXCEPT !.pc = IF handler.environment[1].buildCommand
                                         THEN "build" ELSE "start"]
       \/ handler' = HandlerThrow(h, "exec rejected")
    /\ UNCHANGED <<shvars, evars, bvars, avars, gvars, lvars, hvars>>

\* lines 162-178
buildProject ==
    /\ handler.pc = "build"
    /\ LET h == log(setStatus(handler, "building"), "info", "Building project") IN
       \/ \E result \in ExecResults :
             handler' = IF ~result.success
                        THEN HandlerThrow(h, "Build failed")
                        ELSE [log(h, "info", "Build completed successfully")
                                EXCEPT !.pc = "start"]
       \/ handler' = HandlerThrow(h, "exec rejected")
    /\ UNCHANGED <<shvars, evars, bvars, avars, gvars, lvars, hvars>>

\* lines 214-215: status running, initialize() returns
HandlerRunning(h) ==
    [log(setStatus(h, "running"), "info", "Application started successfully")
       EXCEPT !.pc = "done", !.outcome = "resolved"]

\* lines 180-201 and, for an environment that is not previewable, 214-215
HandlerStartApplication ==
    /\ handler.pc = "start"
    /\ LET h == log(setStatus(handler, "starting"), "info", "Starting application") IN
       \/ handler' = IF handler.environment[1].previewable
                     THEN [h EXCEPT !.pc = "expose"] ELSE HandlerRunning(h)
       \/ handler' = HandlerThrow(h, "exec rejected")
    /\ UNCHANGED <<shvars, evars, bvars, avars, gvars, lvars, hvars>>

\* lines 204-215: exposePort gives a URL or throws, which is logged
HandlerExposePort ==
    /\ handler.pc = "expose"
    /\ \/ handler' = HandlerRunning(log([handler EXCEPT !.previewUrl = TRUE],
                                        "info", "Preview available"))
       \/ handler' = HandlerRunning(log(handler, "warn", "Could not expose port"))
    /\ UNCHANGED <<shvars, evars, bvars, avars, gvars, lvars, hvars>>

\* lines 90-95: the error is recorded, then thrown again
HandlerCatch ==
    /\ handler.pc = "catch"
    /\ handler' = [log(setStatus([handler EXCEPT !.error = handler.thrown], "error"),
                       "error", "Session failed")
                     EXCEPT !.pc = "done", !.outcome = "rejected"]
    /\ UNCHANGED <<shvars, evars, bvars, avars, gvars, lvars, hvars>>

InitGrammar ==
    /\ gIn \in GrammarInputs
    /\ gOwnerOk = <<>>
    /\ gRepoOk = <<>>
    /\ InitLockVars
    /\ InitHonoVars
    /\ InitShellVars

NextGrammar == CheckOwner \/ CheckRepo

SpecGrammar == InitGrammar /\ [][NextGrammar]_vars

InitLock == InitLockVars /\ InitGrammarVars /\ InitHonoVars /\ InitShellVars

LaunchStep(q) ==
    \/ LaunchRepoCheck(q)
    \/ LaunchGetSession(q)
    \/ LaunchGetLock(q)
    \/ LaunchWait(q)
    \/ LaunchWaitLock(q)
    \/ LaunchFinalCheck(q)
    \/ LaunchPutLock(q)
    \/ LaunchRecheck(q)
    \/ LaunchReleaseHit(q)
    \/ LaunchPutSession(q)
    \/ LaunchPutInfo(q)
    \/ LaunchRelease(q)
    \/ LaunchThrow(q)

InitStep(s) ==
    \/ InitCloning(s)
    \/ InitGitCheckout(s)
    \/ InitServe(s)
    \/ InitExposePort(s)
    \/ InitCatch(s)

NextLock ==
    \/ \E q \in Launches, owner \in LaunchOwners, repo \in LaunchRepos :
          LaunchStart(q, owner, repo)
    \/ \E q \in Launches : LaunchStep(q)
    \/ \E p \in RepoFullNames : ExpireLock(p) \/ ExpireSession(p)

SpecLock == InitLock /\ [][NextLock]_vars

\* the read side of the lock worker beside one launch
NextLockRead ==
    \/ \E owner \in LaunchOwners, repo \in LaunchRepos : LaunchStart(1, owner, repo)
    \/ LaunchRepoCheck(1)
    \/ LaunchGetSession(1)
    \/ LaunchGetLock(1)
    \/ LaunchPutLock(1)
    \/ LaunchRecheck(1)
    \/ LaunchPutSession(1)
    \/ LaunchPutInfo(1)
    \/ LaunchRelease(1)
    \/ LaunchThrow(1)
    \/ \E s \in Sessions : InitStep(s)
    \/ \E s \in Sessions : ExpireInfo(s)
    \/ \E kind \in {"status", "page"}, id \in ReaderIds : ReaderStart(kind, id)
    \/ ReaderGetInfo
    \/ ReaderGetPreview

SpecLockRead == InitLock /\ [][NextLockRead]_vars

\* two launches of the lock worker with the tasks they hand to waitUntil
NextLockInit ==
    \/ \E q \in {1, 2}, owner \in LaunchOwners, repo \in LaunchRepos :
          LaunchStart(q, owner, repo)
    \/ \E q \in {1, 2} : LaunchStep(q)
    \/ \E s \in Sessions : InitStep(s)
    \/ \E p \in RepoFullNames : ExpireLock(p) \/ ExpireSession(p)

SpecLockInit == InitLock /\ [][NextLockInit]_vars

\* A request handler that has started runs on: the runtime resumes it after
\* each await (setTimeout and the KV operations complete).
SpecLockFair ==
    /\ InitLock
    /\ [][NextLockInit]_vars
    /\ \A q \in {1, 2} : WF_vars(LaunchStep(q))

\* a launch that may die while it holds the lock, and a launch that arrives
\* after that
NextCrash ==
    \/ \E owner \in LaunchOwners, repo \in LaunchRepos : LaunchStart(1, owner, repo)
    \/ \E owner \in LaunchOwners, repo \in LaunchRepos : LaunchStartAfter(2, owner, repo)
    \/ \E q \in {1, 2} : LaunchRepoCheck(q)
    \/ \E q \in {1, 2} : LaunchGetSession(q)
    \/ \E q \in {1, 2} : LaunchGetLock(q)
    \/ \E q \in {1, 2} : LaunchPutLock(q)
    \/ \E q \in {1, 2} : LaunchRecheck(q)
    \/ \E q \in {1, 2} : LaunchPutSession(q)
    \/ \E q \in {1, 2} : LaunchPutInfo(q)
    \/ \E q \in {1, 2} : LaunchRelease(q)
    \/ \E q \in {1, 2} : LaunchThrow(q)
    \/ LaunchDie(1)
    \/ \E p \in RepoFullNames : ExpireLock(p)
    \/ \E p \in RepoFullNames : ExpireSession(p)

\* the store removes a key when its expirationTtl has run out (the lock's is
\* 60 s, line 222), and the runtime resumes a live request after each await
SpecCrash ==
    /\ InitLock
    /\ [][NextCrash]_vars
    /\ WF_vars(LaunchStep(2))
    /\ \A p \in RepoFullNames : WF_vars(ExpireLock(p))

InitHono == InitLockVars /\ InitGrammarVars /\ InitHonoVars /\ InitShellVars

\* the launch handler alone, for several requests
NextHonoLaunch ==
    \/ \E q \in HLaunches, p \in HonoNames : HonoLaunchStart(q, p[1], p[2])
    \/ \E q \in HLaunches : HonoLaunchGetIpRate(q)
    \/ \E q \in HLaunches : HonoLaunchGetRepoCount(q)
    \/ \E q \in HLaunches : HonoLaunchGetActive(q)
    \/ \E q \in HLaunches : HonoLaunchProbe(q)
    \/ \E q \in HLaunches : HonoLaunchDeleteActive(q)
    \/ \E q \in HLaunches : HonoLaunchDecrement(q)
    \/ \E q \in HLaunches : HonoLaunchPutRepoCount(q)
    \/ \E q \in HLaunches : HonoLaunchPutIpRate(q)
    \/ \E q \in HLaunches : HonoLaunchPutActive(q)
    \/ \E q \in HLaunches : HonoLaunchPutSession(q)

SpecHonoLaunch == InitHono /\ [][NextHonoLaunch]_vars

\* the id of a session created before the launches of a run
EarlierSession == MaxHonoLaunch + 1

\* The launch handler after earlier launches: the client IP created
\* ipBefore sessions for other repositories within the hour (lines 1080-1081
\* left session_rate at that count), and every repository has repoBefore
\* sessions, each created after the probe of the one before it returned
\* without success (lines 1058-1063, 1078 and 1084 left repo_sessions at that
\* count and active: at the latest of them).
InitHonoCaps ==
    /\ InitLockVars /\ InitGrammarVars /\ InitShellVars
    /\ ipBefore \in 0..IpCap
    /\ \E n \in 0..RepoCap : repoBefore = [p \in HonoNames |-> n]
    /\ hkvRate = ipBefore
    /\ hkvRepo = repoBefore
    /\ hkvActive = [p \in HonoNames |->
                      IF repoBefore[p] > 0 THEN EarlierSession ELSE 0]
    /\ hkvSession = [s \in HSessions |-> NoSession]
    /\ hUuids = 0
    /\ hLaunch = [q \in HLaunches |-> IdleHLaunch]
    /\ phase = [s \in HSessions |-> IdlePhase]
    /\ client = IdleClient

SpecHonoCaps == InitHonoCaps /\ [][NextHonoLaunch]_vars

\* one launch, the task it starts and the session endpoints beside them
NextHono ==
    \/ \E p \in HonoNames : HonoLaunchStart(1, p[1], p[2])
    \/ HonoLaunchGetIpRate(1)
    \/ HonoLaunchGetRepoCount(1)
    \/ HonoLaunchGetActive(1)
    \/ HonoLaunchPutRepoCount(1)
    \/ HonoLaunchPutIpRate(1)
    \/ HonoLaunchPutActive(1)
    \/ HonoLaunchPutSession(1)
    \/ \E s \in HSessions : UpdateSessionGet(s)
    \/ \E s \in HSessions : UpdateSessionPut(s)
    \/ \E s \in HSessions : PhaseClone(s)
    \/ \E s \in HSessions : PhaseAnalyze(s)
    \/ \E s \in HSessions : PhaseInstall(s)
    \/ \E s \in HSessions : PhaseBuild(s)
    \/ \E s \in HSessions : PhaseStart(s)
    \/ \E s \in HSessions : PhaseExpose(s)
    \/ \E op \in ClientOps, id \in HonoIds : ClientStart(op, id)
    \/ StatusExec
    \/ StatusGet
    \/ LogsGet
    \/ PageGet
    \/ StopExec
    \/ StopGet
    \/ StopPut
    \/ \E s \in HSessions : HonoExpireSession(s)

SpecHono == InitHono /\ [][NextHono]_vars

PhaseStep(s) ==
    \/ UpdateSessionGet(s)
    \/ UpdateSessionPut(s)
    \/ PhaseClone(s)
    \/ PhaseAnalyze(s)
    \/ PhaseInstall(s)
    \/ PhaseBuild(s)
    \/ PhaseStart(s)
    \/ PhaseExpose(s)

\* one launch of the Hono worker, the task it starts and the reading
\* endpoints; no stop request
NextPhases ==
    \/ \E p \in HonoNames : HonoLaunchStart(1, p[1], p[2])
    \/ HonoLaunchGetIpRate(1)
    \/ HonoLaunchGetRepoCount(1)
    \/ HonoLaunchGetActive(1)
    \/ HonoLaunchPutRepoCount(1)
    \/ HonoLaunchPutIpRate(1)
    \/ HonoLaunchPutActive(1)
    \/ HonoLaunchPutSession(1)
    \/ \E s \in HSessions : UpdateSessionGet(s)
    \/ \E s \in HSessions : UpdateSessionPut(s)
    \/ \E s \in HSessions : PhaseClone(s)
    \/ \E s \in HSessions : PhaseAnalyze(s)
    \/ \E s \in HSessions : PhaseInstall(s)
    \/ \E s \in HSessions : PhaseBuild(s)
    \/ \E s \in HSessions : PhaseStart(s)
    \/ \E s \in HSessions : PhaseExpose(s)
    \/ \E op \in {"status", "logs", "page"}, id \in HonoIds : ClientStart(op, id)
    \/ StatusExec
    \/ StatusGet
    \/ LogsGet
    \/ PageGet
    \/ \E s \in HSessions : HonoExpireSession(s)

\* every await of initializeSession settles: the sandbox calls carry
\* timeouts, the KV calls and the fetches return or throw
SpecPhases ==
    /\ InitHono
    /\ [][NextPhases]_vars
    /\ \A s \in HSessions : WF_vars(PhaseStep(s))

\* the start command line, for every value of one environment variable
InitShell ==
    /\ shValue \in EnvValues
    /\ shBy = ""
    /\ shLine = <<>>
    /\ shRun = <<>>
    /\ handler = IdleHandler
    /\ InitExecVars
    /\ InitAnalyzerVars
    /\ InitLockVars
    /\ InitGrammarVars
    /\ InitHonoVars

NextShell == StartExec \/ startApplication

SpecShell == InitShell /\ [][NextShell]_vars

\* one SessionHandler, initialize() called once
NextHandler ==
    \/ \E p \in RepoFullNames : initialize(p[1], p[2])
    \/ cloneRepository
    \/ analyzeRepository
    \/ installDependencies
    \/ buildProject
    \/ HandlerStartApplication
    \/ HandlerExposePort
    \/ HandlerCatch

SpecHandler == InitHono /\ [][NextHandler]_vars

\* AIAnalyzer.analyzeRepository, for every request of the input sets
InitAnalyzer ==
    /\ InitLockVars /\ InitGrammarVars /\ InitHonoVars
    /\ shValue = <<>> /\ shBy = "" /\ shLine = <<>> /\ shRun = <<>>
    /\ handler = IdleHandler
    /\ InitExecVars
    /\ anIn \in { <<[files |-> f, configContents |-> c, aiResponse |-> a]>> :
                     f \in AnFileSets, c \in AnConfigContents, a \in AnResponses }
    /\ anFiles = <<>>
    /\ anOut = <<>>

NextAnalyzer == AnalyzeFiles \/ BuildEnvironmentConfig

SpecAnalyzer == InitAnalyzer /\ [][NextAnalyzer]_vars

\* the two phase executors side by side: initializeSession of one launch of
\* the Hono worker and one SessionHandler
NextSequence ==
    \/ \E p \in HonoNames : HonoLaunchStart(1, p[1], p[2])
    \/ HonoLaunchGetIpRate(1)
    \/ HonoLaunchGetRepoCount(1)
    \/ HonoLaunchGetActive(1)
    \/ HonoLaunchPutRepoCount(1)
    \/ HonoLaunchPutIpRate(1)
    \/ HonoLaunchPutActive(1)
    \/ HonoLaunchPutSession(1)
    \/ \E s \in HSessions : UpdateSessionGet(s)
    \/ \E s \in HSessions : UpdateSessionPut(s)
    \/ \E s \in HSessions : PhaseClone(s)
    \/ \E s \in HSessions : PhaseAnalyze(s)
    \/ \E s \in HSessions : PhaseInstall(s)
    \/ \E s \in HSessions : PhaseBuild(s)
    \/ \E s \in HSessions : PhaseStart(s)
    \/ \E s \in HSessions : PhaseExpose(s)
    \/ \E p \in HonoNames : initialize(p[1], p[2])
    \/ cloneRepository
    \/ analyzeRepository
    \/ installDependencies
    \/ buildProject
    \/ HandlerStartApplication
    \/ HandlerExposePort
    \/ HandlerCatch

SpecSequence == InitHono /\ [][NextSequence]_vars

\* one launch of each worker with the task it hands to waitUntil, and the
\* expiry of the records
NextTasks ==
    \/ \E owner \in LaunchOwners, repo \in LaunchRepos : LaunchStart(1, owner, repo)
    \/ LaunchRepoCheck(1)
    \/ LaunchGetSession(1)
    \/ LaunchGetLock(1)
    \/ LaunchPutLock(1)
    \/ LaunchRecheck(1)
    \/ LaunchPutSession(1)
    \/ LaunchPutInfo(1)
    \/ LaunchRelease(1)
    \/ LaunchThrow(1)
    \/ \E s \in Sessions : InitStep(s)
    \/ \E s \in Sessions : ExpireInfo(s)
    \/ \E p \in HonoNames : HonoLaunchStart(1, p[1], p[2])
    \/ HonoLaunchGetIpRate(1)
    \/ HonoLaunchGetRepoCount(1)
    \/ HonoLaunchGetActive(1)
    \/ HonoLaunchPutRepoCount(1)
    \/ HonoLaunchPutIpRate(1)
    \/ HonoLaunchPutActive(1)
    \/ HonoLaunchPutSession(1)
    \/ \E s \in HSessions : PhaseStep(s)
    \/ \E s \in HSessions : HonoExpireSession(s)

\* ctx.waitUntil keeps a task alive until its promise settles, the awaits of
\* the tasks settle (the sandbox calls carry timeouts), and a request handler
\* is resumed after each await
SpecTasks ==
    /\ InitHono
    /\ [][NextTasks]_vars
    /\ WF_vars(LaunchStep(1))
    /\ \A s \in Sessions : WF_vars(InitStep(s))
    /\ \A s \in HSessions : WF_vars(PhaseStep(s))

\* the exec requests of one session
NextExec ==
    \/ \E r \in ExecRequests, command \in {"missing", "dangerous", "ok"} :
          ExecStart(r, command)
    \/ \E r \in ExecRequests : ExecGetRate(r)
    \/ \E r \in ExecRequests : ExecRun(r)
    \/ \E r \in ExecRequests : ExecPutRate(r)
    \/ ExpireExecRate

SpecExec == InitHono /\ [][NextExec]_vars

(***************************************************************************)
(* The Validator grammars as the specification words them                  *)
(***************************************************************************)
OwnerGrammar(s) ==
    /\ Len(s) \in 1..39
    /\ \A i \in 1..Len(s) : s[i] \in Alnum \cup {"-"}
    /\ s[1] # "-"
    /\ s[Len(s)] # "-"
    /\ \A i \in 1..(Len(s) - 1) : ~(s[i] = "-" /\ s[i + 1] = "-")

RepoGrammar(s) ==
    /\ Len(s) \in 1..100
    /\ \A i \in 1..Len(s) : s[i] \in Alnum \cup {".", "_", "-"}
    /\ s # <<".">>
    /\ s # <<".", ".">>

(***************************************************************************)
(* C1  For every valid (owner, repo) with no existing session, any number  *)
(* of concurrent launch requests create at most one session: no reachable  *)
(* state holds two different session ids created for the same repository.  *)
(* created[p] is the set of session ids written under session:p since the  *)
(* key was last absent.                                                    *)
(***************************************************************************)
C1_AtMostOneSession ==
    \A p \in RepoFullNames : Cardinality(created[p]) <= 1

(***************************************************************************)
(* C2  N concurrent launch calls with no prior session create one session, *)
(* with a tolerance of one extra: the number of distinct sessions created  *)
(* for a repository never exceeds 2, whatever N and the interleaving.      *)
(***************************************************************************)
C2_AtMostTwoSessions ==
    \A p \in RepoFullNames : Cardinality(created[p]) <= 2

(***************************************************************************)
(* C3  Idempotent fast path: once one launch for a repository has fully    *)
(* completed, every later launch made while the index entry has not        *)
(* expired returns the same session id, creates no session record and      *)
(* writes no lock.  launch[q].after is the id the first completed launch   *)
(* returned, if request q arrived after that launch completed.             *)
(***************************************************************************)
C3_IdempotentFastPath ==
    \A q \in Launches :
        launch[q].after # 0 =>
            /\ launch[q].pc \in {"isRepoPublic", "getSession", "done"}
            /\ launch[q].pc = "done" /\ launch[q].resp = 302 =>
                  launch[q].sessionId = launch[q].after

(***************************************************************************)
(* C4  A launch whose owner or repo fails the Validator grammar fails with *)
(* HTTP 400 before any side effect: no durable-store read or write         *)
(* (launch[q].kv), no repository-metadata request (launch[q].out) and no   *)
(* sandbox call, which the handler only schedules after its store writes.  *)
(***************************************************************************)
C4_InvalidRejected ==
    \A q \in Launches :
        /\ launch[q].pc # "idle"
        /\ ~(OwnerGrammar(launch[q].owner) /\ RepoGrammar(launch[q].repo))
        => /\ launch[q].pc = "done"
           /\ launch[q].resp = 400
           /\ ~launch[q].kv
           /\ ~launch[q].out
           /\ launch[q].sessionId = 0

\* a request with a valid owner and an invalid repo has been answered 400
\* while another request holds the lock
C4_Witness ==
    \E q \in Launches :
        /\ launch[q].pc = "done"
        /\ launch[q].resp = 400
        /\ OwnerGrammar(launch[q].owner)
        /\ ~RepoGrammar(launch[q].repo)
        /\ \E p \in RepoFullNames : kvLock[p] # 0

(***************************************************************************)
(* C5  Every caller-facing operation that accepts an owner, a repo or a    *)
(* session id validates it against its grammar before touching the durable *)
(* store or the sandbox executor: no store access and no sandbox call is   *)
(* made with an identifier that fails validation.                          *)
(***************************************************************************)
UuidGrammar(s) ==
    /\ Len(s) = 36
    /\ \A i \in {9, 14, 19, 24} : s[i] = "-"
    /\ \A i \in (1..36) \ {9, 14, 19, 24} : s[i] \in Hex

C5_ValidatedBeforeAccess ==
    /\ client.touched => UuidGrammar(client.id)
    /\ \A q \in HLaunches :
          hLaunch[q].kv =>
              OwnerGrammar(hLaunch[q].owner) /\ RepoGrammar(hLaunch[q].repo)

(***************************************************************************)
(* C8  The status operation returns 400 when the id fails the UUID         *)
(* grammar, 404 when no session record exists for the id, and 200 with the *)
(* session view otherwise; it never reports a status for a session that    *)
(* has no record.                                                          *)
(***************************************************************************)
SessionStatuses ==
    {"initializing", "cloning", "analyzing", "installing", "building",
     "starting", "running", "stopped", "error"}

C8_StatusResponses ==
    client.op = "status" /\ client.pc = "done" =>
        /\ ~UuidGrammar(client.id) => client.resp = 400
        /\ UuidGrammar(client.id) /\ ~client.found => client.resp = 404
        /\ UuidGrammar(client.id) /\ client.found =>
              client.resp = 200 /\ client.status \in SessionStatuses
        /\ ~client.found => client.status = ""

(***************************************************************************)
(* C9  Status and log reads are pure: every step of a status or logs       *)
(* request, interleaved anywhere with the launch and the phase execution,  *)
(* leaves every durable-store key unchanged and moves no phase.            *)
(***************************************************************************)
C9_ReadsArePure ==
    [][ /\ client.op \in {"status", "logs"}
        /\ client.pc \in {"exec", "get"}
        /\ client' # client
        => /\ hkvvars' = hkvvars
           /\ kvvars' = kvvars
           /\ phase' = phase
           /\ hLaunch' = hLaunch ]_vars

\* a status request has returned the record of a session whose task is
\* between the get and the put of an updateSession call
C9_Witness ==
    /\ client.op = "status"
    /\ client.pc = "done"
    /\ client.found
    /\ \E s \in HSessions : phase[s].sub = "put" /\ client.id = randomUUID(s)

(***************************************************************************)
(* C10  Monotonic progress: the status stored in a session's record never  *)
(* moves backwards in the order initializing, cloning, analyzing,          *)
(* installing, building, starting, running; the only other change is the   *)
(* transition to error, taken from a non-terminal state.  The record       *)
(* coming into being as initializing, its expiry, and the stop             *)
(* operation's move from running to stopped are let through.               *)
(***************************************************************************)
PhaseOrder ==
    <<"initializing", "cloning", "analyzing", "installing", "building",
      "starting", "running">>

Rank(status) == CHOOSE i \in 1..Len(PhaseOrder) : PhaseOrder[i] = status

InOrder(status) == \E i \in 1..Len(PhaseOrder) : PhaseOrder[i] = status

StatusMove(old, new) ==
    \/ new = old
    \/ old = "none" /\ new = "initializing"
    \/ new = "none"
    \/ InOrder(old) /\ InOrder(new) /\ Rank(old) <= Rank(new)
    \/ new = "error" /\ InOrder(old) /\ old # "running"
    \/ old = "running" /\ new = "stopped"

C10_MonotonicStatus ==
    [][\A s \in HSessions :
          StatusMove(hkvSession[s].status, hkvSession'[s].status)]_vars

(***************************************************************************)
(* C11  Phase skip: when the analyzed EnvironmentConfig has neither        *)
(* installCommand nor buildCommand, phase execution goes from analyzing to *)
(* starting and running; the status is never installing or building, no    *)
(* install or build command is run in the sandbox, no install or build log *)
(* statement is reached, and the task does not stall.                      *)
(***************************************************************************)
NoCommands(s) ==
    /\ phase[s].environment # <<>>
    /\ ~phase[s].environment[1].installCommand
    /\ ~phase[s].environment[1].buildCommand

InstallBuildPcs ==
    {"u_installing", "l_installing", "x_install", "l_installWarn", "l_installed",
     "u_building", "l_building", "x_build", "l_built"}

FatalMessages == {"Clone failed", "Build failed"}

C12_FatalFailure ==
    \A s \in HSessions :
        phase[s].error \in FatalMessages =>
            /\ phase[s].pc \in {"u_error", "l_error", "end"}
            /\ phase[s].error = "Clone failed" => phase[s].ran = {"clone"}
            /\ phase[s].error = "Build failed" =>
                  phase[s].ran \cap {"start", "expose"} = {}
            /\ phase[s].pc \in {"l_error", "end"} /\ hkvSession[s] # NoSession =>
                  /\ hkvSession[s].status = "error"
                  /\ hkvSession[s].error = phase[s].error

(***************************************************************************)
(* C13  A failure of the install step is non-fatal: whenever the install   *)
(* command fails, a warn log entry is appended and execution proceeds to   *)
(* the next phase (building, or starting when there is no build command);  *)
(* an install failure alone never moves the session to error.              *)
(***************************************************************************)
C13_InstallNonFatal ==
    \A s \in HSessions :
        phase[s].install \in {"failed", "threw"} =>
            /\ phase[s].error \notin {"Install threw"}
            /\ phase[s].pc \notin {"x_install", "l_installWarn"}
               /\ hkvSession[s] # NoSession =>
                  \E i \in 1..Len(hkvSession[s].logs) : hkvSession[s].logs[i] = "warn"

(***************************************************************************)
(* C14  A failure to expose the preview port is non-fatal: the task goes   *)
(* on to write status running and never enters its error handler, the      *)
(* entry it appends for the failure has level warn, and the running        *)
(* record it writes carries no preview URL.                                *)
(***************************************************************************)
ExposeFailed(s) == "expose" \in phase[s].ran /\ ~phase[s].previewUrl

UnsafeConfiguration(s) ==
    /\ phase[s].environment # <<>>
    /\ \E k \in phase[s].environment[1].envVars : ~EnvNameOk(k)

C15_UnsafeNameFails ==
    \A s \in HSessions : UnsafeConfiguration(s) =>
        /\ phase[s].ran \cap {"start", "expose"} = {}
        /\ phase[s].pc \notin {"x_expose", "l_preview", "l_noPreview", "u_running",
                               "l_started"}
        /\ phase[s].error = "Invalid environment variable name"
           /\ phase[s].pc = "end" /\ hkvSession[s] # NoSession =>
              /\ hkvSession[s].status = "error"
              /\ hkvSession[s].error = phase[s].error

(***************************************************************************)
(* C16  Shell-escaping round trip: for every value v of an environment     *)
(* variable, the line the start phase hands to the shell sets the variable *)
(* to exactly v and performs nothing but the change of directory, the      *)
(* assignment and the start command; v never reaches the shell raw.        *)
(***************************************************************************)
ChangeDirectory ==
    <<ShWord(<<"c","d">>),
      ShWord(<<"/","w","o","r","k","s","p","a","c","e","/","r","e","p","o">>)>>

Assignment(v) == ShWord(EnvName \o <<"=">> \o v)

ExpectedRun(by, v) ==
    IF by = "initializeSession"
    THEN <<ChangeDirectory, <<ShWord(<<"e","x","p","o","r","t">>), Assignment(v)>>>>
         \o ShCommands(startCommand)
    ELSE <<ChangeDirectory, <<Assignment(v)>> \o ShCommands(startCommand)[1]>>

C16_EscapingRoundTrip ==
    /\ \A v \in EnvValues : ShCommands(escapeShellArg(v)) = <<<<ShWord(v)>>>>
    /\ shBy # "" => shRun = ExpectedRun(shBy, shValue)

(***************************************************************************)
(* C17  End to end: when clone, analysis, install, build, start and port   *)
(* exposure all succeed, the task ends with the record at status running   *)
(* and a preview URL; from then on no phase is executed again, and every   *)
(* status request for the session answers with that record, status         *)
(* running.                                                                *)
(***************************************************************************)
AllSucceeded(s) ==
    /\ phase[s].pc = "end"
    /\ phase[s].error = ""
    /\ phase[s].ran = {"clone", "install", "build", "start", "expose"}
    /\ phase[s].install = "succeeded"
    /\ phase[s].previewUrl

C17_EndToEnd ==
    /\ \A s \in HSessions : phase[s].pc = "u_cloning" ~> phase[s].pc = "end"
    /\ [](\A s \in HSessions : AllSucceeded(s) /\ hkvSession[s] # NoSession =>
            /\ hkvSession[s].status = "running"
            /\ hkvSession[s].previewUrl)
    /\ [][\A s \in HSessions : AllSucceeded(s) =>
            /\ phase'[s] = phase[s]
            /\ /\ hkvSession[s] # NoSession
               /\ client.op = "status"
               /\ client.id = randomUUID(s)
               /\ client.pc # "done"
               /\ client'.pc = "done"
               => client'.found /\ client'.status = "running"]_vars

(***************************************************************************)
(* C18  Every fatal error raised during background phase execution is      *)
(* caught at the top of the executor, written as status error with the     *)
(* message in the error field, and then swallowed: the task always         *)
(* completes normally and never propagates a fault.                        *)
(***************************************************************************)
C18_ErrorsSwallowed ==
    /\ handler.thrown # "" /\ handler.pc = "done" =>
          /\ handler.status = "error"
          /\ handler.error = handler.thrown
    /\ handler.pc = "done" => handler.outcome = "resolved"

(***************************************************************************)
(* C19  No orphaned locks: every launch that writes the lock deletes it    *)
(* before it returns or rethrows (after creating the session, on the       *)
(* double-check hit, and on error); once every launch for a repository     *)
(* has finished, no lock record remains for it.                            *)
(***************************************************************************)
C19_NoOrphanedLocks ==
    /\ \A q \in Launches :
          launch[q].pc = "done" /\ "lock" \in launch[q].wrote => launch[q].released
    /\ \A p \in RepoFullNames :
          (\A q \in Launches : launch[q].pc # "idle" /\ Key(q) = p => launch[q].pc = "done")
          => kvLock[p] = 0

\* every launch has finished; two of them for one repository wrote the lock,
\* one returning the redirect and one rethrowing an error
C19_Witness ==
    /\ \A q \in Launches : launch[q].pc = "done"
    /\ \E q1, q2 \in Launches :
          /\ Key(q1) = Key(q2)
          /\ "lock" \in launch[q1].wrote /\ launch[q1].resp = 302
          /\ "lock" \in launch[q2].wrote /\ launch[q2].resp = 500

(***************************************************************************)
(* C20  A launch that finds the lock held by another request polls the     *)
(* index: when a session appears it returns that session's id and creates  *)
(* nothing; when the wait is exhausted and there is still no session it    *)
(* returns 503, having written no lock, no session record and no index     *)
(* entry.                                                                  *)
(***************************************************************************)
C20_WaitersWriteNothing ==
    /\ [](\A q \in Launches : launch[q].resp = 503 => launch[q].wrote = {})
    /\ [][\A q \in Launches :
             launch[q].pc \in {"wait", "finalCheck"} /\ launch'[q].pc = "done" =>
                /\ kvvars' = kvvars
                /\ uuids' = uuids
                /\ launch'[q].wrote = {}
                /\ IF kvSession[Key(q)] # 0
                   THEN /\ launch'[q].resp = 302
                        /\ launch'[q].sessionId = kvSession[Key(q)]
                   ELSE /\ launch[q].pc = "finalCheck"
                        /\ launch'[q].resp = 503]_vars

\* one waiter was redirected to the session another request created, and
\* one gave up with 503
C20_Witness ==
    \E q1, q2 \in Launches :
        /\ launch[q1].pc = "done" /\ launch[q1].resp = 302
        /\ launch[q1].waited /\ launch[q1].wrote = {}
        /\ launch[q1].sessionId \in created[Key(q1)]
        /\ launch[q2].pc = "done" /\ launch[q2].resp = 503
        /\ launch[q2].waited /\ launch[q2].wrote = {}

(***************************************************************************)
(* C21  After a session's phase execution has ended in error, a launch     *)
(* that starts for the same repository gets a new session: the failed      *)
(* session is not the one it is redirected to.                             *)
(***************************************************************************)
C21_FailedNotReturned ==
    \A q \in Launches :
        launch[q].pc = "done" /\ launch[q].resp = 302 =>
            launch[q].sessionId \notin launch[q].failed

(***************************************************************************)
(* C22  A session's status becomes stopped only through a stop call on a   *)
(* session whose status is running: a stop call that read any other status *)
(* does not write stopped.                                                 *)
(***************************************************************************)
C22_StoppedOnlyFromRunning ==
    [][\A s \in HSessions :
          hkvSession[s].status # "stopped" /\ hkvSession'[s].status = "stopped" =>
             /\ client.op = "stop"
             /\ client.sessionData.status = "running"
             /\ hkvSession[s].status = "running"]_vars

(***************************************************************************)
(* C23  Exec rate limit: for a session the exec endpoint runs at most 30   *)
(* commands in the sandbox while its counter lives, also when exec         *)
(* requests for the session arrive concurrently; a request that is         *)
(* answered 429 has run nothing.                                           *)
(***************************************************************************)
C23_ExecRateLimit ==
    /\ execRan <= ExecCap
    /\ \A r \in ExecRequests : execReq[r].resp = 429 => execReq[r].pc = "done"

(***************************************************************************)
(* C24  Creation rate limit: a client IP creates at most 5 sessions per    *)
(* hour, also when its launches run concurrently; a launch answered 429    *)
(* has created no session record, no index entry and no background task.   *)
(***************************************************************************)
IpCreated == ipBefore + Cardinality({q \in HLaunches : hLaunch[q].resp = 200})

C24_IpRateLimit ==
    /\ IpCreated <= IpCap
    /\ \A q \in HLaunches :
          hLaunch[q].resp = 429 =>
             /\ hLaunch[q].sessionId = 0
             /\ \A s \in HSessions :
                   hkvSession[s].status # "none" =>
                      \E o \in HLaunches \ {q} : hLaunch[o].sessionId = s

(***************************************************************************)
(* C25  Per-repository cap: a repository never has more than 3 sessions    *)
(* that were created and not found dead, under any interleaving of the     *)
(* launches; a session is created only by a launch that read a counter     *)
(* below 3.                                                                *)
(***************************************************************************)
RepoLive(p) ==
    repoBefore[p]
    + Cardinality({q \in HLaunches : HKey(q) = p /\ hLaunch[q].resp = 200})
    - Cardinality({hLaunch[q].existingSessionId :
                      q \in {o \in HLaunches : HKey(o) = p /\ hLaunch[o].dead}})

C25_RepoCap ==
    /\ \A p \in HonoNames : RepoLive(p) <= RepoCap
    /\ \A q \in HLaunches :
          hLaunch[q].resp = 200 => hLaunch[q].repoSessionCount < RepoCap

(***************************************************************************)
(* C26  The repository lock serializes check-and-create: no two launches   *)
(* for one repository are at the same time between their write of the lock *)
(* (line 222) and their delete of it (lines 229, 251, 260).                *)
(***************************************************************************)
InCritical(q) ==
    launch[q].pc \in {"recheck", "releaseHit", "putSession", "putInfo", "release"}

C26_LockSerializes ==
    \A q \in Launches : \A o \in Launches \ {q} :
        InCritical(q) /\ InCritical(o) => Key(q) # Key(o)

(***************************************************************************)
(* C27  A launch whose bounded wait has expired (timedOut, line 187) and   *)
(* that then finds neither a session nor a lock for its repository goes on *)
(* to take the lock and attempt creation; it is not answered 503.          *)
(***************************************************************************)
C27_ExpiredWaitFallsThrough ==
    [][\A q \in Launches :
          /\ launch[q].pc = "finalCheck"
          /\ launch'[q].pc # "finalCheck"
          /\ kvSession[Key(q)] = 0
          /\ kvLock[Key(q)] = 0
          => launch'[q].pc = "putLock" /\ launch'[q].resp # 503]_vars

C30_SingleWriter ==
    [][\A s \in HSessions :
          /\ hkvSession[s].status # "none"
          /\ hkvSession'[s].status # "none"
          /\ hkvSession'[s] # hkvSession[s]
          => /\ phase[s].pc \in UpdatePcs
             /\ phase[s].sub = "put"
             /\ phase'[s] # phase[s]
             /\ client' = client
             /\ Len(hkvSession'[s].logs) >= Len(hkvSession[s].logs)]_vars

(***************************************************************************)
(* C31  Logs are append-only: every write to a session record stores a     *)
(* logs sequence that has the sequence stored before it as a prefix.       *)
(***************************************************************************)
IsPrefix(a, b) == Len(a) <= Len(b) /\ SubSeq(b, 1, Len(a)) = a

C31_LogsAppendOnly ==
    [][\A s \in HSessions :
          hkvSession[s] # NoSession /\ hkvSession'[s] # NoSession =>
             IsPrefix(hkvSession[s].logs, hkvSession'[s].logs)]_vars

(***************************************************************************)
(* C32  Once the stop endpoint has stored status `stopped`, the record     *)
(* keeps that status for as long as it exists: no later write of           *)
(* initializeSession replaces it, so every later status read returns       *)
(* `stopped`.                                                              *)
(***************************************************************************)
C32_StoppedSticks ==
    [][\A s \in HSessions :
          hkvSession[s].status = "stopped" /\ hkvSession'[s] # NoSession =>
             hkvSession'[s].status = "stopped"]_vars

(***************************************************************************)
(* C33  The preview URL of a session is stored at most once, and not after *)
(* the session's record says `running`: a status read that returns        *)
(* `running` for a session whose port exposure succeeds carries the URL.   *)
(***************************************************************************)
C33_PreviewBeforeRunning ==
    [][/\ \A s \in Sessions :
             kvPreview'[s] # kvPreview[s] /\ kvPreview'[s] =>
                kvInfo[s].status # "running"
       /\ \A s \in HSessions :
             hkvSession'[s] # NoSession
             /\ hkvSession'[s].previewUrl # hkvSession[s].previewUrl =>
                hkvSession[s].status # "running"]_vars

(***************************************************************************)
(* C34  Within one session the phases run one after the other: the         *)
(* analysis begins only after the clone succeeded, the install only after  *)
(* the analysis gave the environment, the build only after the install     *)
(* returned, and the start command is issued only after the build          *)
(* succeeded or was skipped.  This holds for initializeSession and for     *)
(* SessionHandler.initialize.                                              *)
(***************************************************************************)
C34_Sequential ==
    /\ \A s \in HSessions :
          LET ph == phase[s] IN
          /\ ph.pc = "x_analyze" => "clone" \in ph.ran /\ ph.error = ""
          /\ ph.pc = "x_install" =>
                /\ ph.environment # <<>>
                /\ ph.ran = {"clone"}
                /\ ph.error = ""
          /\ ph.pc = "x_build" =>
                /\ ph.environment # <<>>
                /\ ph.environment[1].installCommand =>
                      ph.install \in {"succeeded", "failed"}
                /\ "start" \notin ph.ran
                /\ ph.error = ""
          /\ ph.pc = "x_start" =>
                /\ ph.environment # <<>>
                /\ ph.environment[1].installCommand => "install" \in ph.ran
                /\ ph.environment[1].buildCommand => "build" \in ph.ran
                /\ ph.error = ""
    /\ handler.pc = "analyze" => handler.status = "cloning"
    /\ handler.pc = "install" =>
          handler.environment # <<>> /\ handler.status = "analyzing"
    /\ handler.pc = "build" =>
          /\ handler.environment # <<>>
          /\ handler.status = IF handler.environment[1].installCommand
                              THEN "installing" ELSE "analyzing"
    /\ handler.pc = "start" =>
          /\ handler.environment # <<>>
          /\ handler.status =
                IF handler.environment[1].buildCommand THEN "building"
                ELSE IF handler.environment[1].installCommand THEN "installing"
                ELSE "analyzing"

C34_Witness ==
    /\ phase[1].pc = "x_start"
    /\ phase[1].ran = {"clone", "install", "build"}
    /\ handler.pc = "start"
    /\ handler.status = "building"

C36_ReplaceKeepsCounter ==
    \A q \in HLaunches :
        /\ hLaunch[q].dead
        /\ hLaunch[q].pc = "done"
        /\ hLaunch[q].resp = 200
        /\ \A o \in HLaunches \ {q} : hLaunch[o].pc = "idle"
        => hkvRepo[HKey(q)] = hLaunch[q].repoSessionCount

(***************************************************************************)
(* C37  Static-analysis override: when a deterministic marker is available *)
(* (package.json in the tree with its contents fetched, requirements.txt,  *)
(* Cargo.toml, go.mod, Gemfile or composer.json), the type, the install    *)
(* command and the start command of the resulting EnvironmentConfig come   *)
(* from the marker: they are the same whatever the classifier answered.    *)
(***************************************************************************)
MarkerAvailable(fileAnalysis, configContents) ==
    \/ fileAnalysis.hasPackageJson /\ Truthy(configContents.packageJson)
    \/ fileAnalysis.hasRequirementsTxt
    \/ fileAnalysis.hasCargoToml
    \/ fileAnalysis.hasGoMod
    \/ fileAnalysis.hasGemfile
    \/ fileAnalysis.hasComposerJson

C37_StaticOverride ==
    (anOut # <<>>) /\ (anOut # <<Threw>>)
    /\ MarkerAvailable(anFiles[1], anIn[1].configContents) =>
       \A other \in AnResponses :
          LET o == buildEnvironmentConfig(anFiles[1], other, anIn[1].configContents)
          IN /\ o.type = anOut[1].type
             /\ o.installCommand = anOut[1].installCommand
             /\ o.startCommand = anOut[1].startCommand

(***************************************************************************)
(* C38  Whenever the active-session index maps a repository to a session   *)
(* id, the record of that session exists, so an id a launch hands out can  *)
(* be polled without a 404.                                                *)
(***************************************************************************)
C38_IndexHasRecord ==
    \A p \in RepoFullNames :
        kvSession[p] # 0 => kvInfo[kvSession[p]] # NoInfo

(***************************************************************************)
(* C39  A launch releases only the lock it holds: when it deletes the lock *)
(* record, the token stored there is its own.                              *)
(***************************************************************************)
C39_ReleasesOwnLock ==
    [][\A q \in Launches :
          ~launch[q].released /\ launch'[q].released =>
             kvLock[Key(q)] \in {0, q}]_vars

(***************************************************************************)
(* C40  A launch that dies between writing the lock and deleting it does   *)
(* not block its repository for ever: the lock record disappears through   *)
(* its TTL, and a launch that arrives afterwards and is redirected to a    *)
(* session has taken the lock and created that session.                    *)
(***************************************************************************)
LockHeldBy(q) == launch[q].pc # "idle" /\ kvLock[Key(q)] = q

C40_CrashedCreatorUnblocks ==
    /\ \A q \in Launches :
          (launch[q].pc = "dead" /\ LockHeldBy(q)) ~> ~LockHeldBy(q)
    /\ [](launch[2].resp # 503 /\ ~launch[2].waited)
    /\ [](launch[2].pc = "done" /\ launch[2].resp = 302 =>
             {"lock", "session"} \subseteq launch[2].wrote)

(***************************************************************************)
(* C6  Owner grammar: isValidGitHubOwner accepts a string exactly when it  *)
(* has 1 to 39 characters, every character is alphanumeric or a hyphen, it *)
(* neither starts nor ends with a hyphen and has no two consecutive        *)
(* hyphens; 'a', 'a-b', 'A1' are accepted and '-abc', 'abc-', 'a--b', the  *)
(* 40-character strings and the empty string are rejected.                 *)
(***************************************************************************)
C6_OwnerGrammar ==
    gOwnerOk # <<>> =>
        /\ gOwnerOk = <<OwnerGrammar(gIn)>>
        /\ gIn \in {<<"a">>, <<"a","-","b">>, <<"A","1">>} => gOwnerOk = <<TRUE>>
        /\ gIn \in {<<"-","a","b","c">>, <<"a","b","c","-">>,
                    <<"a","-","-","b">>, <<>>} => gOwnerOk = <<FALSE>>
        /\ Len(gIn) = 40 => gOwnerOk = <<FALSE>>

\* a 40-character alphanumeric owner has been rejected
C6_Witness ==
    /\ gOwnerOk = <<FALSE>>
    /\ Len(gIn) = 40
    /\ \A i \in 1..Len(gIn) : gIn[i] \in Alnum

(***************************************************************************)
(* C7  Repo grammar: isValidGitHubRepo accepts a string exactly when it    *)
(* has 1 to 100 characters, every character is alphanumeric or one of      *)
(* '.', '_', '-', and the string is neither '.' nor '..'; 'my.repo_v2' is  *)
(* accepted and '.', '..' and the 101-character strings are rejected.      *)
(***************************************************************************)
C7_RepoGrammar ==
    gRepoOk # <<>> =>
        /\ gRepoOk = <<RepoGrammar(gIn)>>
        /\ gIn = <<"m","y",".","r","e","p","o","_","v","2">> => gRepoOk = <<TRUE>>
        /\ gIn \in {<<".">>, <<".", ".">>} => gRepoOk = <<FALSE>>
        /\ Len(gIn) = 101 => gRepoOk = <<FALSE>>

\* '..' has been rejected although every character of it is allowed
C7_Witness ==
    /\ gRepoOk = <<FALSE>>
    /\ gIn = <<".", ".">>

====
